---- MODULE Spec2Model ----
(***************************************************************************)
(* Event-driven metadata lifecycle engine of mdjourney: the folder         *)
(* monitor (watcher handlers and start-up sweep), the metadata generator,  *)
(* the file processor and the metadata API service, over one monitored     *)
(* root holding one project directory p_X with one dataset directory d_Y.  *)
(*                                                                         *)
(* Paths are sequences of one-character strings so that the code's         *)
(* substring, prefix and suffix tests are computed and not tabulated.      *)
(* JSON values carry their JSON type.  Timestamps are left out of the      *)
(* documents (no operation modelled here reads them back).                 *)
(***************************************************************************)
EXTENDS Integers, Sequences, FiniteSets, TLC

(***************************************************************************)
(* Bounds of the model                                                     *)
(***************************************************************************)
\* uuid4() values the run may draw
MaxUuid == 3

(***************************************************************************)
(* Strings                                                                 *)
(***************************************************************************)
\* Python: pat in s
IsSubstr(pat, s) ==
    \E i \in 0..(Len(s) - Len(pat)) : SubSeq(s, i + 1, i + Len(pat)) = pat

\* Python: s.startswith(pre)
StartsWith(s, pre) ==
    Len(pre) <= Len(s) /\ SubSeq(s, 1, Len(pre)) = pre

\* Python: s.endswith(suf)
EndsWith(s, suf) ==
    Len(suf) <= Len(s) /\ SubSeq(s, Len(s) - Len(suf) + 1, Len(s)) = suf

\* index of the last "/" of s, 0 when there is none
LastSlash(s) ==
    LET idx == {i \in 1..Len(s) : s[i] = "/"}
    IN  IF idx = {} THEN 0 ELSE CHOOSE i \in idx : \A j \in idx : j <= i

\* os.path.dirname on an absolute, normalised path
dirname(s) ==
    LET k == LastSlash(s)
    IN  IF k = 0 THEN <<>> ELSE IF k = 1 THEN <<"/">> ELSE SubSeq(s, 1, k - 1)

\* os.path.basename
basename(s) == SubSeq(s, LastSlash(s) + 1, Len(s))

\* os.path.join(a, b)
PathJoin(a, b) == IF a = <<"/">> THEN a \o b ELSE a \o <<"/">> \o b

PROJECT_PREFIX == <<"p", "_">>
DATASET_PREFIX == <<"d", "_">>
METADATA_SUBDIR == <<".", "m", "e", "t", "a", "d", "a", "t", "a">>

\* the monitored root and the paths under it
MONITOR_PATH == <<"/", "m">>
ProjectPath == <<"/", "m", "/", "p", "_", "X">>
DatasetPath == <<"/", "m", "/", "p", "_", "X", "/", "d", "_", "Y">>
\* a project whose name holds "env", a build output directory and a project
\* inside it
EnvsProjectPath == <<"/", "m", "/", "p", "_", "e", "n", "v", "s">>
DistPath == <<"/", "m", "/", "d", "i", "s", "t">>
DistProjectPath == <<"/", "m", "/", "d", "i", "s", "t", "/", "p", "_", "B">>
FileA == <<"/", "m", "/", "p", "_", "X", "/", "d", "_", "Y", "/", "a", ".", "t", "x", "t">>
FileB == <<"/", "m", "/", "p", "_", "X", "/", "d", "_", "Y", "/", "b", ".", "c", "s", "v">>

ProjectDescriptiveName == <<"p", "r", "o", "j", "e", "c", "t", "_", "d", "e", "s", "c", "r", "i", "p", "t", "i", "v", "e", ".", "j", "s", "o", "n">>
ProjectAdministrativeName == <<"p", "r", "o", "j", "e", "c", "t", "_", "a", "d", "m", "i", "n", "i", "s", "t", "r", "a", "t", "i", "v", "e", ".", "j", "s", "o", "n">>
DatasetAdministrativeName == <<"d", "a", "t", "a", "s", "e", "t", "_", "a", "d", "m", "i", "n", "i", "s", "t", "r", "a", "t", "i", "v", "e", ".", "j", "s", "o", "n">>
DatasetStructuralName == <<"d", "a", "t", "a", "s", "e", "t", "_", "s", "t", "r", "u", "c", "t", "u", "r", "a", "l", ".", "j", "s", "o", "n">>
ExperimentContextualName == <<"e", "x", "p", "e", "r", "i", "m", "e", "n", "t", "_", "c", "o", "n", "t", "e", "x", "t", "u", "a", "l", ".", "j", "s", "o", "n">>
CompleteMetadataName == <<"c", "o", "m", "p", "l", "e", "t", "e", "_", "m", "e", "t", "a", "d", "a", "t", "a", ".", "j", "s", "o", "n">>

\* os.path.join(directory, ".metadata", name)
MetaPath(dir, name) == PathJoin(PathJoin(dir, METADATA_SUBDIR), name)

\* the directories and data files of the modelled tree
Dirs == {ProjectPath, DatasetPath}
Files == {FileA, FileB}

\* the metadata documents of the modelled tree
DocPaths ==
    { MetaPath(ProjectPath, ProjectDescriptiveName),
      MetaPath(ProjectPath, ProjectAdministrativeName),
      MetaPath(DatasetPath, ProjectDescriptiveName),
      MetaPath(DatasetPath, DatasetAdministrativeName),
      MetaPath(DatasetPath, DatasetStructuralName),
      MetaPath(DatasetPath, ExperimentContextualName),
      MetaPath(DatasetPath, CompleteMetadataName),
      MetaPath(EnvsProjectPath, ProjectDescriptiveName),
      MetaPath(EnvsProjectPath, ProjectAdministrativeName),
      MetaPath(DistProjectPath, ProjectDescriptiveName),
      MetaPath(DistProjectPath, ProjectAdministrativeName),
      MetaPath(<<"/">>, DatasetStructuralName) }

(***************************************************************************)
(* JSON values and documents                                               *)
(***************************************************************************)
JStr(s) == [t |-> "string", v |-> s]
JInt(n) == [t |-> "integer", v |-> n]
JNum(x) == [t |-> "number", v |-> x]
JBool(b) == [t |-> "boolean", v |-> b]
JArr(a) == [t |-> "array", v |-> a]
JObj(o) == [t |-> "object", v |-> o]
\* JSON null, Python None
JNull == [t |-> "null", v |-> <<>>]

EmptyObj == <<>>

\* Python: d.get(f)
Get(d, f) == IF f \in DOMAIN d THEN d[f] ELSE JNull

\* Python truthiness of a JSON value
Truthy(x) ==
    CASE x.t = "null" -> FALSE
      [] x.t = "string" -> x.v # ""
      [] x.t = "integer" -> x.v # 0
      [] x.t = "number" -> x.v # 0
      [] x.t = "boolean" -> x.v
      [] x.t = "array" -> x.v # <<>>
      [] x.t = "object" -> DOMAIN x.v # {}
      [] OTHER -> TRUE

\* Python: d.update(u) on a copy of d
Update(d, u) ==
    [f \in DOMAIN d \cup DOMAIN u |-> IF f \in DOMAIN u THEN u[f] ELSE d[f]]

\* a local variable of the code: v is computed once and named in F
Bind(v, F(_)) == F(v)

\* a file that does not exist, and a file holding the JSON object c
NoDoc == [exists |-> FALSE, content |-> EmptyObj]
Doc(c) == [exists |-> TRUE, content |-> c]

SENTINEL == "To be filled"

(***************************************************************************)
(* Schemas.  A property descriptor keeps what the materializer and the     *)
(* validator read: type, const / enum / pattern, minLength and, for an     *)
(* object, its nested properties.                                          *)
(***************************************************************************)
Prop(type, mode, dflt, min) ==
    [type |-> type, mode |-> mode, dflt |-> dflt, min |-> min, props |-> <<>>]
PlainString == Prop("string", "plain", "", 0)
NonEmptyString == Prop("string", "plain", "", 1)
ConstString(c) == Prop("string", "const", c, 0)
EnumString(first) == Prop("string", "enum", first, 0)
IntegerProp == Prop("integer", "plain", "", 0)
NumberProp == Prop("number", "plain", "", 0)
ArrayProp == Prop("array", "plain", "", 0)
ObjectProp(nested) ==
    [type |-> "object", mode |-> "plain", dflt |-> "", min |-> 0, props |-> nested]

Schema(properties, required) == [properties |-> properties, required |-> required]

\* project_descriptive.json
ProjectSchema ==
    Schema([project_identifier |-> PlainString,
            project_title |-> PlainString,
            created_by |-> PlainString],
           {"project_identifier", "project_title", "created_by"})

\* project_administrative_schema.json
ProjectAdminSchema ==
    Schema([project_identifier_link |-> PlainString,
            default_license |-> EnumString("CC-BY-4.0"),
            created_by |-> PlainString],
           {"project_identifier_link", "created_by"})

\* dataset_administrative_schema.json
DatasetAdminSchema ==
    Schema([dataset_identifier_link |-> PlainString,
            license |-> PlainString,
            created_by |-> PlainString],
           {"dataset_identifier_link", "created_by"})

\* dataset_structural_schema.json
DatasetStructSchema ==
    Schema([dataset_identifier |-> PlainString,
            dataset_title |-> NonEmptyString,
            associated_project_identifier |-> PlainString,
            file_descriptions |-> ArrayProp,
            file_organization |->
                ObjectProp([file_count |-> IntegerProp,
                            total_size_bytes |-> IntegerProp]),
            created_by |-> PlainString],
           {"dataset_identifier", "dataset_title", "associated_project_identifier",
            "created_by"})

\* experiment_contextual_schema.json, the base contextual schema
ExperimentContextualSchema ==
    Schema([experiment_identifier_run_id |-> PlainString,
            experiment_template_type |-> PlainString,
            dataset_identifier_link |-> PlainString,
            protocol_deviations |-> PlainString,
            created_by |-> PlainString],
           {"experiment_identifier_run_id", "experiment_template_type",
            "protocol_deviations", "created_by"})

\* contextual/object_template.json: a template whose identifier property is
\* experiment_identifier_object_id
ObjectTemplateSchema ==
    Schema([experiment_identifier_object_id |-> PlainString,
            experiment_template_type |-> ConstString("object_template"),
            dataset_identifier_link |-> PlainString,
            protocol_deviations |-> PlainString,
            created_by |-> PlainString],
           {"experiment_identifier_object_id", "experiment_template_type",
            "protocol_deviations", "created_by"})

\* contextual/measurement_template.json: a template a site has added, whose
\* required fields include the dataset link, a number, an array and an object
MeasurementTemplateSchema ==
    Schema([experiment_identifier_run_id |-> PlainString,
            experiment_template_type |-> ConstString("measurement_template"),
            dataset_identifier_link |-> PlainString,
            sample_count |-> NumberProp,
            instruments |-> ArrayProp,
            settings |-> ObjectProp(<<>>),
            created_by |-> PlainString],
           {"experiment_identifier_run_id", "experiment_template_type",
            "dataset_identifier_link", "sample_count", "instruments", "settings",
            "created_by"})

\* complete_metadata_schema.json
CompleteMetadataSchema ==
    Schema([version |-> PlainString,
            experiment_identifier |-> PlainString,
            metadata_components |-> ObjectProp(<<>>)],
           {"version", "experiment_identifier", "metadata_components"})

\* the template types a client may name; only object_template has a schema file
TemplateTypes == {"object_template", "missing_template"}
NoSchema == [properties |-> <<>>, required |-> {"<none>"}]

\* a string property with a pattern, as a site's own schema may add
PatternString == Prop("string", "pattern", "", 0)

\* the strings that match the pattern of a PatternString
PatternValues ==
    {"REF-1", "https://orcid.org/0000-0000-0000-0000", "placeholder@example.com"}

\* the schema files the packaged directory holds
PackagedNames ==
    {"project_descriptive.json", "project_administrative_schema.json",
     "dataset_administrative_schema.json", "dataset_structural_schema.json",
     "experiment_contextual_schema.json", "complete_metadata_schema.json",
     "contextual/object_template.json", "contextual/measurement_template.json"}

\* the packaged schema of a name
PackagedSchema(schema_name) ==
    CASE schema_name = "project_descriptive.json" -> ProjectSchema
      [] schema_name = "project_administrative_schema.json" -> ProjectAdminSchema
      [] schema_name = "dataset_administrative_schema.json" -> DatasetAdminSchema
      [] schema_name = "dataset_structural_schema.json" -> DatasetStructSchema
      [] schema_name = "experiment_contextual_schema.json" -> ExperimentContextualSchema
      [] schema_name = "complete_metadata_schema.json" -> CompleteMetadataSchema
      [] schema_name = "contextual/object_template.json" -> ObjectTemplateSchema
      [] schema_name = "contextual/measurement_template.json" -> MeasurementTemplateSchema
      [] OTHER -> NoSchema

\* a site's own version of a schema: the packaged one with one more
\* property, reference_code, that has a pattern
SiteSchema(schema_name) ==
    Schema(Update(PackagedSchema(schema_name).properties,
                  [reference_code |-> PatternString]),
           PackagedSchema(schema_name).required \cup {"reference_code"})

(***************************************************************************)
(* Configuration and schema resolution                                     *)
(***************************************************************************)
VARIABLE config      \* the configuration the backend was initialised with
VARIABLE cache       \* the entry of the project cache for the dataset listing
VARIABLE manager     \* the BackgroundTaskManager: tasks, task_queue, running_tasks

\* strict: schemas.strict_validation.  One schema name may have files outside
\* the packaged directory: explicit is its entry in SCHEMA_PATH_OVERRIDES
\* ("none", or whether the file the entry names exists), local whether
\* MONITOR_PATH/.template_schemas holds it, custom whether CUSTOM_SCHEMA_PATH
\* is set and holds it, packaged whether the packaged directory holds it.
\* Every other name has its packaged file only.  allow_missing:
\* schemas.allow_missing_schemas.
DefaultConfig ==
    [strict |-> TRUE, name |-> "", explicit |-> "none", local |-> FALSE,
     custom |-> "unset", packaged |-> TRUE, allow_missing |-> FALSE]

\* app_config.SCHEMA_PATH_OVERRIDES.get(schema_name)
ExplicitOverride(schema_name) ==
    IF schema_name = config.name THEN config.explicit ELSE "none"

\* (MONITOR_PATH / ".template_schemas" / schema_name).exists()
LocalOverrideExists(schema_name) == schema_name = config.name /\ config.local

\* CUSTOM_SCHEMA_PATH is not None and (CUSTOM_SCHEMA_PATH / schema_name).exists()
CustomOverrideExists(schema_name) == schema_name = config.name /\ config.custom = "file"

\* (schema_base_path / schema_name).exists()
PackagedExists(schema_name) ==
    IF schema_name = config.name THEN config.packaged ELSE schema_name \in PackagedNames

\* a resolved path: the tier whose directory it lies in, and whether the file exists
Resolved(tier, exists) == [tier |-> tier, exists |-> exists]

\* resolve_schema_path without the table of explicit overrides
resolve_schema_path_NoExplicit(schema_name) ==
    IF LocalOverrideExists(schema_name) THEN Resolved("local_override", TRUE)
    ELSE IF CustomOverrideExists(schema_name) THEN Resolved("custom_override", TRUE)
    ELSE Resolved("packaged_default", PackagedExists(schema_name))

\* SchemaManager.resolve_schema_path
resolve_schema_path(schema_name) ==
    IF ExplicitOverride(schema_name) # "none"
    THEN Resolved("explicit_override", ExplicitOverride(schema_name) = "file")
    ELSE IF LocalOverrideExists(schema_name) THEN Resolved("local_override", TRUE)
    ELSE IF CustomOverrideExists(schema_name) THEN Resolved("custom_override", TRUE)
    ELSE Resolved("packaged_default", PackagedExists(schema_name))

\* resolution_source of SchemaManager.get_schema_resolution_info
get_schema_resolution_info(schema_name) ==
    IF LocalOverrideExists(schema_name) THEN "local_override"
    ELSE IF CustomOverrideExists(schema_name) THEN "custom_override"
    ELSE "packaged_default"

\* the schema a file holds: the local override directory holds the site's
\* own version, every other place a copy of the packaged schema
SchemaAt(tier, schema_name) ==
    IF tier = "local_override" THEN SiteSchema(schema_name) ELSE PackagedSchema(schema_name)

\* SchemaManager.load_schema raises SchemaNotFoundError: the resolved file is
\* missing and allow_missing_schemas is False
load_schema_raises(schema_name) ==
    ~resolve_schema_path(schema_name).exists /\ ~config.allow_missing

\* SchemaManager.load_schema on a schema name: NoSchema is both the None
\* returned when missing schemas are allowed and the absence of a result when
\* the call raises; callers that go on with None test load_schema_raises
load_schema(schema_name) ==
    Bind(resolve_schema_path(schema_name), LAMBDA resolved_path :
    IF resolved_path.exists THEN SchemaAt(resolved_path.tier, schema_name) ELSE NoSchema)

get_project_schema == load_schema("project_descriptive.json")
get_project_admin_schema == load_schema("project_administrative_schema.json")
get_dataset_admin_schema == load_schema("dataset_administrative_schema.json")
get_dataset_struct_schema == load_schema("dataset_structural_schema.json")
get_experiment_contextual_schema == load_schema("experiment_contextual_schema.json")
get_complete_metadata_schema == load_schema("complete_metadata_schema.json")

\* f"contextual/{template_type}.json"
TemplatePath(template_type) ==
    IF template_type = "object_template" THEN "contextual/object_template.json"
    ELSE IF template_type = "measurement_template"
    THEN "contextual/measurement_template.json"
    ELSE "contextual/missing_template.json"

\* SchemaManager.get_contextual_template_schema: None when contextual/<type>.json
\* does not exist
get_contextual_template_schema(template_type) == load_schema(TemplatePath(template_type))

(***************************************************************************)
(* Template materializer                                                   *)
(***************************************************************************)
\* the value _create_metadata_from_schema gives a nested property
NestedDefault(name, p) ==
    CASE p.type = "string" ->
             IF p.mode \in {"const", "enum"} THEN JStr(p.dflt)
             ELSE IF p.mode = "pattern" /\ name = "orcid"
                  THEN JStr("https://orcid.org/0000-0000-0000-0000")
             ELSE IF p.mode = "pattern" /\ name = "email"
                  THEN JStr("placeholder@example.com")
             ELSE JStr(SENTINEL)
      [] p.type = "integer" -> JInt(0)
      [] p.type = "number" -> JNum(0)
      [] p.type = "boolean" -> JBool(FALSE)
      [] p.type = "array" -> JArr(<<>>)
      [] OTHER -> JStr(SENTINEL)

\* the value _create_metadata_from_schema gives a top-level property that is
\* not auto-filled; an object is filled one level deep
FieldDefault(name, p) ==
    IF p.type = "object"
    THEN JObj([n \in DOMAIN p.props |-> NestedDefault(n, p.props[n])])
    ELSE NestedDefault(name, p)

_create_metadata_from_schema(schema, auto_fill_fields) ==
    [f \in DOMAIN schema.properties |->
        IF f \in DOMAIN auto_fill_fields THEN auto_fill_fields[f]
        ELSE FieldDefault(f, schema.properties[f])]

(***************************************************************************)
(* Validator                                                               *)
(***************************************************************************)
\* one value against its property descriptor
ValueConforms(x, p) ==
    /\ x.t = p.type
    /\ (p.type = "string" /\ p.mode = "const") => x.v = p.dflt
    /\ (p.type = "string" /\ p.min > 0) => x.v # ""
    /\ (p.type = "string" /\ p.mode = "pattern") => x.v \in PatternValues

\* SchemaManager.validate_json: no schema validates anything.  A violation
\* returns False in lenient mode and raises SchemaValidationError in strict
\* mode; the callers modelled here treat both alike, nothing is written,
\* except generate_dataset_files, which the exception leaves altogether.
validate_json(data, schema) ==
    \/ schema = NoSchema
    \/ /\ schema.required \subseteq DOMAIN data
       /\ \A f \in DOMAIN data \cap DOMAIN schema.properties :
              ValueConforms(data[f], schema.properties[f])

(***************************************************************************)
(* State                                                                   *)
(***************************************************************************)
VARIABLES
    dirs,            \* the directories of Dirs that exist
    files,           \* data file -> its content, or NoFile
    docs,            \* metadata document path -> NoDoc or Doc(content)
    running,         \* FolderMonitor.is_running
    nextUuid,        \* index of the next value uuid4() returns
    lastOp,          \* the operation handled last and what it returned
    pending,         \* the documents a handler is still writing, file by file
    procs            \* where the sweep's thread and the observer's thread are

vars == <<dirs, files, docs, running, nextUuid, lastOp, pending, procs, config, cache,
         manager>>

\* contents a data file may have: its size in bytes and its SHA-256 digest
NoFile == [size |-> -1, digest |-> ""]
FileContents(f) ==
    IF f = FileA
    THEN { [size |-> 5, digest |-> "sha-5"],
           [size |-> 20, digest |-> "sha-20"],
           [size |-> 30, digest |-> "sha-30"] }
    ELSE { [size |-> 20, digest |-> "sha-20"] }

\* str(uuid.uuid4()): the n-th value drawn
UuidStr(n) == <<"uuid-1", "uuid-2", "uuid-3", "uuid-4", "uuid-5", "uuid-6">>[n]

\* lastOp before any operation; an operation overwrites the fields it sets:
\* op and path name the call, ok and branch are what process_new_file or the
\* API call returned, checked / is_complete / experiment_id what the completion
\* gate returned, wrote whether complete_metadata.json was written, status the
\* metadata_status the API reported
NoOp ==
    [op |-> "", path |-> <<>>, kind |-> "", ok |-> FALSE, branch |-> "",
     checked |-> FALSE, is_complete |-> FALSE, experiment_id |-> JNull,
     wrote |-> FALSE, status |-> "", schema_name |-> "", source |-> "",
     resolved |-> "", admin_file |-> FALSE, struct_file |-> FALSE,
     raised |-> {}]

\* a file that open(path, "w") has truncated and json.dump has not yet filled
Truncated == [exists |-> TRUE, content |-> EmptyObj, truncated |-> TRUE]

\* no handler is in the middle of its writes
NoWrite == [active |-> FALSE, target |-> [d \in DocPaths |-> NoDoc]]

\* a thread that is not inside a handler: pc is where it is, file the data
\* file it is processing, content what the scanner read of it, struct the
\* structural document it loaded, queue the files its walk has still to
\* visit, project_id the identifier it read, did whether a process_new_file
\* call of it on the first data file returned True
NoProc == [pc |-> "idle", file |-> <<>>, content |-> NoFile, struct |-> NoDoc,
           queue |-> <<>>, project_id |-> <<>>, did |-> FALSE]

\* the main thread, which runs the sweep, and the observer's thread, which
\* runs the handlers
NoProcs == [sweep |-> NoProc, handler |-> NoProc]

\* os.path.exists on a metadata document
DocExists(fs, path) == path \in DocPaths /\ fs[path].exists

\* json.load of an existing metadata document
Load(fs, path) == fs[path].content

\* open(path, "w") and json.dump(content)
WriteDoc(fs, path, content) == [fs EXCEPT ![path] = Doc(content)]

ProjectDescriptivePath(project_path) == MetaPath(project_path, ProjectDescriptiveName)
ProjectAdministrativePath(project_path) == MetaPath(project_path, ProjectAdministrativeName)
DatasetAdministrativePath(dataset_path) == MetaPath(dataset_path, DatasetAdministrativeName)
DatasetStructuralPath(dataset_path) == MetaPath(dataset_path, DatasetStructuralName)
ExperimentContextualPath(dataset_path) == MetaPath(dataset_path, ExperimentContextualName)
CompleteMetadataPath(dataset_path) == MetaPath(dataset_path, CompleteMetadataName)

(***************************************************************************)
(* Metadata generator                                                      *)
(***************************************************************************)
_strip_prefix_from_name(folder_name, prefix) ==
    IF StartsWith(folder_name, prefix)
    THEN SubSeq(folder_name, Len(prefix) + 1, Len(folder_name))
    ELSE folder_name

\* MetadataGenerator._generate_project_admin_file
_generate_project_admin_file(fs, project_path, project_id) ==
    IF get_project_admin_schema = NoSchema THEN fs ELSE
    Bind(_create_metadata_from_schema(get_project_admin_schema,
             [project_identifier_link |-> project_id,
              created_by |-> JStr("system")]),
         LAMBDA data :
    IF validate_json(data, get_project_admin_schema)
    THEN WriteDoc(fs, ProjectAdministrativePath(project_path), data)
    ELSE fs)

\* project_data of generate_project_file
ProjectData(project_path, project_id) ==
    _create_metadata_from_schema(get_project_schema,
        [project_identifier |-> JStr(project_id),
         project_title |->
             JStr(_strip_prefix_from_name(basename(project_path), PROJECT_PREFIX)),
         created_by |-> JStr("system")])

\* what generate_project_file returns: the path of the descriptive document
\* (TRUE) or None (FALSE)
generate_project_file_returns(project_path, project_id) ==
    /\ get_project_schema # NoSchema
    /\ validate_json(ProjectData(project_path, project_id), get_project_schema)

\* generate_project_file that writes the document whatever validate_json said
generate_project_file_WritesAnyway(fs, project_path, project_id) ==
    WriteDoc(fs, ProjectDescriptivePath(project_path),
             ProjectData(project_path, project_id))

\* MetadataGenerator.generate_project_file with project_id = str(uuid.uuid4()):
\* the files after the call
generate_project_file(fs, project_path, project_id) ==
    IF get_project_schema = NoSchema THEN fs ELSE
    Bind(ProjectData(project_path, project_id), LAMBDA data :
    IF validate_json(data, get_project_schema)
    THEN _generate_project_admin_file(
             WriteDoc(fs, ProjectDescriptivePath(project_path), data),
             project_path, JStr(project_id))
    ELSE fs)

\* MetadataGenerator._load_project_admin_metadata: the administrative document
\* of the project whose project_identifier is project_id, or JNull
_load_project_admin_metadata(fs, live, project_id) ==
    Bind({p \in live :
             /\ StartsWith(basename(p), PROJECT_PREFIX)
             /\ dirname(p) = MONITOR_PATH
             /\ DocExists(fs, ProjectDescriptivePath(p))
             /\ Get(Load(fs, ProjectDescriptivePath(p)), "project_identifier")
                    = JStr(project_id)},
         LAMBDA found :
    IF found = {} THEN JNull
    ELSE Bind(CHOOSE q \in found : TRUE, LAMBDA p :
         IF DocExists(fs, ProjectAdministrativePath(p))
         THEN JObj(Load(fs, ProjectAdministrativePath(p)))
         ELSE JNull))

\* MetadataGenerator._extract_dataset_fields_from_project_admin (the
\* default_license -> license entry of field_mapping)
_extract_dataset_fields_from_project_admin(project_admin_data) ==
    IF "default_license" \in DOMAIN project_admin_data
       /\ project_admin_data["default_license"].t # "null"
    THEN [license |-> project_admin_data["default_license"]]
    ELSE EmptyObj

\* admin_data of generate_dataset_files
DatasetAdminData(fs, live, project_id, dataset_id) ==
    Bind(_load_project_admin_metadata(fs, live, project_id), LAMBDA project_admin :
    _create_metadata_from_schema(get_dataset_admin_schema,
        Update([dataset_identifier_link |-> JStr(dataset_id),
                created_by |-> JStr("system")],
               IF Truthy(project_admin)
               THEN _extract_dataset_fields_from_project_admin(project_admin.v)
               ELSE EmptyObj)))

\* struct_data of generate_dataset_files
DatasetStructData(dataset_path, project_id, dataset_id) ==
    _create_metadata_from_schema(get_dataset_struct_schema,
        [dataset_identifier |-> JStr(dataset_id),
         dataset_title |->
             JStr(_strip_prefix_from_name(basename(dataset_path), DATASET_PREFIX)),
         associated_project_identifier |-> JStr(project_id),
         created_by |-> JStr("system")])

\* what generate_dataset_files returns: for each of the two documents its
\* path (TRUE) or None (FALSE)
generate_dataset_files_returns(fs, live, dataset_path, project_id, dataset_id) ==
    Bind(get_dataset_admin_schema # NoSchema
           /\ validate_json(DatasetAdminData(fs, live, project_id, dataset_id),
                            get_dataset_admin_schema),
         LAMBDA admin_ok :
    [admin_file |-> admin_ok,
     struct_file |->
        /\ get_dataset_admin_schema # NoSchema
        /\ (config.strict => admin_ok)
        /\ get_dataset_struct_schema # NoSchema
        /\ validate_json(DatasetStructData(dataset_path, project_id, dataset_id),
                         get_dataset_struct_schema)])

\* MetadataGenerator.generate_dataset_files with dataset_id = str(uuid.uuid4()):
\* the files after the call
generate_dataset_files(fs, live, dataset_path, project_id, dataset_id) ==
    IF get_dataset_admin_schema = NoSchema THEN fs ELSE
    Bind(DatasetAdminData(fs, live, project_id, dataset_id), LAMBDA admin_data :
    \* a violation raises in strict mode, and the handler of the whole
    \* function returns no file at all
    IF config.strict /\ ~validate_json(admin_data, get_dataset_admin_schema) THEN fs ELSE
    Bind(IF validate_json(admin_data, get_dataset_admin_schema)
         THEN WriteDoc(fs, DatasetAdministrativePath(dataset_path), admin_data)
         ELSE fs,
         LAMBDA fs1 :
    IF get_dataset_struct_schema = NoSchema THEN fs1 ELSE
    Bind(DatasetStructData(dataset_path, project_id, dataset_id), LAMBDA struct_data :
    IF validate_json(struct_data, get_dataset_struct_schema)
    THEN WriteDoc(fs1, DatasetStructuralPath(dataset_path), struct_data)
    ELSE fs1)))

\* the schema create_experiment_contextual_template materializes: the
\* template's own schema when template_type names one, else the base schema
\* (template_type "" is None)
TemplateSchema(template_type) ==
    IF template_type # "" /\ get_contextual_template_schema(template_type) # NoSchema
    THEN get_contextual_template_schema(template_type)
    ELSE get_experiment_contextual_schema

\* the identifier field the template carries: run_id if the schema has it,
\* else object_id if the schema has that
TemplateIdField(props, experiment_id) ==
    IF "experiment_identifier_run_id" \in DOMAIN props
    THEN [experiment_identifier_run_id |-> JStr(experiment_id)]
    ELSE IF "experiment_identifier_object_id" \in DOMAIN props
    THEN [experiment_identifier_object_id |-> JStr(experiment_id)]
    ELSE EmptyObj

\* the experiment_template_type the template carries
TemplateTypeValue(props, template_type) ==
    IF "experiment_template_type" \in DOMAIN props
       /\ props["experiment_template_type"].mode = "const"
       /\ props["experiment_template_type"].dflt # ""
    THEN props["experiment_template_type"].dflt
    ELSE IF template_type # "" THEN template_type ELSE "unknown_template"

\* dataset_identifier of the structural document, None when there is none
ReadDatasetId(fs, dataset_path) ==
    IF DocExists(fs, DatasetStructuralPath(dataset_path))
    THEN Get(Load(fs, DatasetStructuralPath(dataset_path)), "dataset_identifier")
    ELSE JNull

\* MetadataGenerator.create_experiment_contextual_template: the files after
\* the call; without the base schema it raises SchemaNotFoundError
create_experiment_contextual_template(fs, dataset_path, experiment_id, template_type) ==
    Bind(TemplateSchema(template_type), LAMBDA contextual_schema :
    IF contextual_schema = NoSchema THEN fs ELSE
    Bind(_create_metadata_from_schema(contextual_schema,
             Update([experiment_template_type |->
                         JStr(TemplateTypeValue(contextual_schema.properties, template_type)),
                     created_by |-> JStr("system")],
                    TemplateIdField(contextual_schema.properties, experiment_id))),
         LAMBDA generated :
    Bind(IF "experiment_name" \in DOMAIN generated THEN generated
         ELSE Update(generated, [experiment_name |-> JStr("")]),
         LAMBDA named :
    Bind(ReadDatasetId(fs, dataset_path), LAMBDA ds_id :
    Bind(IF Truthy(ds_id) THEN Update(named, [dataset_identifier_link |-> ds_id])
         ELSE named,
         LAMBDA contextual_data :
    IF validate_json(contextual_data, contextual_schema)
    THEN WriteDoc(fs, ExperimentContextualPath(dataset_path), contextual_data)
    ELSE fs)))))

\* the fields check_contextual_metadata_completion leaves out of the gate
ignore_fields ==
    {"created_by", "created_date", "last_modified_by", "last_modified_date",
     "experiment_template_type"}

\* the schema a contextual document is held against: its template's schema
\* when experiment_template_type names one, else the base schema
GateSchema(template_type) ==
    IF Truthy(template_type) /\ template_type.t = "string"
       /\ get_contextual_template_schema(template_type.v) # NoSchema
    THEN get_contextual_template_schema(template_type.v)
    ELSE get_experiment_contextual_schema

\* the loop of the gate without the comparison with the sentinel
GateRejects_SentinelPasses(value) ==
    \/ value.t = "null"
    \/ value.t = "string" /\ value.v = ""

\* a gated required value the loop of the gate rejects
GateRejects(value) ==
    \/ value.t = "null"
    \/ value.t = "string" /\ (value.v = "" \/ value.v = SENTINEL)

\* what the gate returns: the files after the call and the pair of the code
Gate(fs, is_complete, experiment_id) ==
    [fs |-> fs, is_complete |-> is_complete, experiment_id |-> experiment_id]

\* MetadataGenerator.check_contextual_metadata_completion
check_contextual_metadata_completion(fs, dataset_path) ==
    IF ~DocExists(fs, ExperimentContextualPath(dataset_path))
    THEN Gate(fs, FALSE, JNull)
    ELSE
    Bind(Load(fs, ExperimentContextualPath(dataset_path)), LAMBDA contextual_data :
    Bind(Get(contextual_data, "experiment_identifier_run_id"), LAMBDA experiment_id :
    Bind(ReadDatasetId(fs, dataset_path), LAMBDA ds_id :
    IF \E f \in GateSchema(Get(contextual_data, "experiment_template_type")).required
                    \ ignore_fields :
           GateRejects(Get(contextual_data, f))
    THEN Gate(fs, FALSE, JNull)
    ELSE IF ~Truthy(Get(contextual_data, "dataset_identifier_link")) /\ Truthy(ds_id)
    THEN Gate(WriteDoc(fs, ExperimentContextualPath(dataset_path),
                  Update(contextual_data, [dataset_identifier_link |-> ds_id])),
              TRUE, experiment_id)
    ELSE Gate(fs, TRUE, experiment_id))))

\* the five documents generate_complete_metadata_file requires
RequiredFiles(dataset_path) ==
    << ProjectDescriptivePath(dirname(dataset_path)),
       ProjectAdministrativePath(dirname(dataset_path)),
       DatasetAdministrativePath(dataset_path),
       DatasetStructuralPath(dataset_path),
       ExperimentContextualPath(dataset_path) >>

\* a float that is the quotient of two counts
Ratio(num, den) == <<num, den>>

\* total_fields and filled_fields of _calculate_completeness_score
Tally(total, filled) == [total |-> total, filled |-> filled]
Plus(a, b) == Tally(a.total + b.total, a.filled + b.filled)

\* isinstance(value, (dict, list))
IsContainer(x) == x.t \in {"object", "array"}

\* value and value != "To be filled"
IsFilled(x) == Truthy(x) /\ ~(x.t = "string" /\ x.v = SENTINEL)

\* count_fields of _calculate_completeness_score: a key of a dict counts in
\* total_fields whatever its value is, and in filled_fields when its value is
\* a filled scalar; a file record of file_descriptions is a dict whose fields
\* the scanner has all filled
RECURSIVE count_fields(_), count_keys(_, _), count_items(_)
count_fields(x) ==
    IF x.t = "object" THEN count_keys(x.v, DOMAIN x.v)
    ELSE IF x.t = "array" THEN count_items(x.v)
    ELSE Tally(0, 0)

count_keys(d, keys) ==
    IF keys = {} THEN Tally(0, 0)
    ELSE \* one key of the loop over data.items()
         Bind(CHOOSE k \in keys : TRUE, LAMBDA key :
         Plus(IF IsContainer(d[key]) THEN Plus(Tally(1, 0), count_fields(d[key]))
              ELSE Tally(1, IF IsFilled(d[key]) THEN 1 ELSE 0),
              count_keys(d, keys \ {key})))

count_items(items) ==
    IF items = <<>> THEN Tally(0, 0)
    ELSE Plus(IF DOMAIN Head(items) # {"t", "v"}
              THEN Tally(Cardinality(DOMAIN Head(items)),
                         Cardinality(DOMAIN Head(items)))
              ELSE IF IsContainer(Head(items)) THEN count_fields(Head(items))
              ELSE Tally(1, IF IsFilled(Head(items)) THEN 1 ELSE 0),
              count_items(Tail(items)))

\* MetadataGenerator._calculate_completeness_score
_calculate_completeness_score(metadata) ==
    Bind(count_fields(JObj(metadata)), LAMBDA counted :
    IF counted.total > 0 THEN Ratio(counted.filled, counted.total)
    ELSE Ratio(0, 1))

\* MetadataGenerator._calculate_quality_score: completeness_score * 0.8 + 0.2
\* under schema_compliance True
_calculate_quality_score(metadata) ==
    Bind(_calculate_completeness_score(metadata), LAMBDA score :
    Ratio(4 * score[1] + score[2], 5 * score[2]))

\* complete_data with its scores filled in
Scored(complete_data) ==
    Update(complete_data,
        [metadata_validation |-> JObj(
            [schema_compliance |-> JBool(TRUE),
             completeness_score |-> JNum(_calculate_completeness_score(complete_data)),
             quality_score |-> JNum(_calculate_quality_score(complete_data))])])

\* generate_complete_metadata_file as its unit test sets it up: the project's
\* administrative document neither required nor loaded
generate_complete_metadata_file_FourDocuments(fs, dataset_path, experiment_id) ==
    Bind(RequiredFiles(dataset_path), LAMBDA required_files :
    IF \E i \in {1, 3, 4, 5} : ~DocExists(fs, required_files[i])
    THEN [fs |-> fs, ok |-> FALSE]
    ELSE [fs |-> WriteDoc(fs, CompleteMetadataPath(dataset_path),
                     [version |-> JStr("2.0"),
                      experiment_identifier |-> experiment_id,
                      metadata_components |-> JObj(
                          [project_descriptive |-> JObj(Load(fs, required_files[1])),
                           dataset_administrative |-> JObj(Load(fs, required_files[3])),
                           dataset_structural |-> JObj(Load(fs, required_files[4])),
                           experiment_contextual |-> JObj(Load(fs, required_files[5]))])]),
          ok |-> TRUE])

\* MetadataGenerator.generate_complete_metadata_file:
\* [fs: the files after the call, ok: a path was returned]
generate_complete_metadata_file(fs, dataset_path, experiment_id) ==
    Bind(RequiredFiles(dataset_path), LAMBDA required_files :
    IF \E i \in 1..5 : ~DocExists(fs, required_files[i])
    THEN [fs |-> fs, ok |-> FALSE]
    ELSE
    Bind([version |-> JStr("2.0"),
          experiment_identifier |-> experiment_id,
          metadata_components |-> JObj(
              [project_descriptive |-> JObj(Load(fs, required_files[1])),
               project_administrative |-> JObj(Load(fs, required_files[2])),
               dataset_administrative |-> JObj(Load(fs, required_files[3])),
               dataset_structural |-> JObj(Load(fs, required_files[4])),
               experiment_contextual |-> JObj(Load(fs, required_files[5]))]),
          metadata_relationships |-> JObj(
              [project_to_dataset |-> JStr("one_to_many"),
               dataset_to_experiment |-> JStr("one_to_many"),
               experiment_to_data_files |-> JStr("one_to_many")]),
          metadata_validation |-> JObj(
              [schema_compliance |-> JBool(TRUE),
               completeness_score |-> JNum(0),
               quality_score |-> JNum(0)]),
          metadata_provenance |-> JObj(
              [generated_by |-> JStr("FAIR Metadata System"),
               generation_date |-> JStr("now"),
               last_validation_date |-> JStr("now")])],
         LAMBDA unscored :
    Bind(Scored(unscored), LAMBDA complete_data :
    IF /\ ~load_schema_raises("complete_metadata_schema.json")
       /\ validate_json(complete_data, get_complete_metadata_schema)
    THEN [fs |-> WriteDoc(fs, CompleteMetadataPath(dataset_path), complete_data),
          ok |-> TRUE]
    ELSE [fs |-> fs, ok |-> FALSE])))

(***************************************************************************)
(* File processor                                                          *)
(***************************************************************************)
\* os.path.relpath(file_path, dataset_path) for a file under dataset_path
relpath(file_path, dataset_path) ==
    IF dataset_path = <<"/">> THEN Tail(file_path)
    ELSE SubSeq(file_path, Len(dataset_path) + 2, Len(file_path))

\* FileProcessor._map_scanner_output_to_schema on the scanner's output for a
\* file with this content
_map_scanner_output_to_schema(content, file_path, dataset_path) ==
    [file_name |-> basename(file_path),
     role |-> "raw_data",
     file_path |-> relpath(file_path, dataset_path),
     file_size_bytes |-> content.size,
     checksum |-> content.digest,
     checksum_algorithm |-> "SHA256"]

\* the total when only the first record were counted
TotalSize_FirstRecord(descs) ==
    IF descs = <<>> THEN 0 ELSE Head(descs).file_size_bytes

\* sum(f.get("file_size_bytes", 0) for f in file_descriptions)
RECURSIVE TotalSize(_)
TotalSize(descs) ==
    IF descs = <<>> THEN 0
    ELSE Head(descs).file_size_bytes + TotalSize(Tail(descs))

\* the match-by-name loop left out: every record is appended
UpsertFileDescription_AlwaysAppend(descs, file_metadata, file_name) ==
    Append(descs, file_metadata)

\* the file_descriptions list after the match-by-name loop and the update or append
UpsertFileDescription(descs, file_metadata, file_name) ==
    Bind({i \in 1..Len(descs) : descs[i].file_name = file_name}, LAMBDA hits :
    IF hits = {} THEN Append(descs, file_metadata)
    ELSE Bind(CHOOSE i \in hits : \A j \in hits : i <= j, LAMBDA k :
         [descs EXCEPT ![k] = Update(descs[k], file_metadata)]))

\* struct_data["file_descriptions"], initialised to [] when the key is missing
FileDescriptions(struct_data) ==
    IF "file_descriptions" \in DOMAIN struct_data
    THEN struct_data["file_descriptions"].v ELSE <<>>

\* struct_data["file_organization"], initialised to {} when the key is missing
FileOrganization(struct_data) ==
    IF "file_organization" \in DOMAIN struct_data
    THEN struct_data["file_organization"].v ELSE EmptyObj

\* FileProcessor._update_dataset_structural_file:
\* [fs: the files after the call, ok, branch: "added" or "updated"]
_update_dataset_structural_file(fs, dataset_path, file_metadata, file_path) ==
    IF ~DocExists(fs, DatasetStructuralPath(dataset_path))
    THEN [fs |-> fs, ok |-> FALSE, branch |-> ""]
    ELSE IF load_schema_raises("dataset_structural_schema.json")
    THEN [fs |-> fs, ok |-> FALSE, branch |-> ""]
    ELSE
    Bind(Load(fs, DatasetStructuralPath(dataset_path)), LAMBDA loaded :
    Bind(FileDescriptions(loaded), LAMBDA old_descs :
    Bind(UpsertFileDescription(old_descs, file_metadata, basename(file_path)),
         LAMBDA new_descs :
    Bind(Update(loaded,
             [file_descriptions |-> JArr(new_descs),
              file_organization |-> JObj(Update(FileOrganization(loaded),
                  [file_count |-> JInt(Len(new_descs)),
                   total_size_bytes |-> JInt(TotalSize(new_descs))]))]),
         LAMBDA struct_data :
    IF validate_json(struct_data, get_dataset_struct_schema)
    THEN [fs |-> WriteDoc(fs, DatasetStructuralPath(dataset_path), struct_data),
          ok |-> TRUE,
          branch |-> IF \E i \in 1..Len(old_descs) :
                            old_descs[i].file_name = basename(file_path)
                     THEN "updated" ELSE "added"]
    ELSE [fs |-> fs, ok |-> FALSE, branch |-> ""]))))

\* the size under which process_new_file takes a file to be still being written
MIN_FILE_SIZE == 10

\* process_new_file without its test of the file's size
process_new_file_NoSizeTest(fs, disk, file_path, dataset_path) ==
    IF disk[file_path] = NoFile THEN [fs |-> fs, ok |-> FALSE, branch |-> ""]
    ELSE _update_dataset_structural_file(fs, dataset_path,
             _map_scanner_output_to_schema(disk[file_path], file_path, dataset_path),
             file_path)

\* FileProcessor.process_new_file: [fs, ok, branch]
process_new_file(fs, disk, file_path, dataset_path) ==
    IF disk[file_path] = NoFile THEN [fs |-> fs, ok |-> FALSE, branch |-> ""]
    ELSE IF disk[file_path].size < MIN_FILE_SIZE
    THEN [fs |-> fs, ok |-> FALSE, branch |-> ""]
    ELSE _update_dataset_structural_file(fs, dataset_path,
             _map_scanner_output_to_schema(disk[file_path], file_path, dataset_path),
             file_path)

(***************************************************************************)
(* Folder monitor: the watcher's handlers                                  *)
(***************************************************************************)
\* os.path.isfile
IsFile(fs, disk, path) ==
    \/ path \in Files /\ disk[path] # NoFile
    \/ DocExists(fs, path)

IgnoredNames ==
    { <<".", "g", "i", "t">>, <<".", "d", "v", "c">>,
      <<"_", "_", "p", "y", "c", "a", "c", "h", "e", "_", "_">>,
      <<".", "D", "S", "_", "S", "t", "o", "r", "e">>,
      <<"n", "o", "d", "e", "_", "m", "o", "d", "u", "l", "e", "s">>,
      <<".", "v", "e", "n", "v">>, <<"v", "e", "n", "v">>, <<"e", "n", "v">>,
      <<"d", "i", "s", "t">>, <<"b", "u", "i", "l", "d">>, <<".", "n", "e", "x", "t">> }

EditorTempNames ==
    { <<".", "t", "m", "p">>, <<".", "s", "w", "p">>, <<".", "s", "w", "o">>,
      <<"~">>, <<".", "b", "a", "k">> }

MetadataFileSuffixes ==
    { <<".", "j", "s", "o", "n">>, <<".", "m", "d">>, <<".", "t", "x", "t">> }

TEMPLATE_SCHEMAS_DIR ==
    <<".", "t", "e", "m", "p", "l", "a", "t", "e", "_", "s", "c", "h", "e", "m", "a", "s">>

\* the rule for metadata files under .metadata left out
_should_ignore_path_MetadataFilesSeen(fs, disk, path) ==
    \/ \E part \in IgnoredNames : IsSubstr(part, path)
    \/ \E part \in EditorTempNames : IsSubstr(part, path)
    \/ IsSubstr(TEMPLATE_SCHEMAS_DIR, path)

\* FolderCreationHandler._should_ignore_path
_should_ignore_path(fs, disk, path) ==
    \/ \E part \in IgnoredNames : IsSubstr(part, path)
    \/ \E part \in EditorTempNames : IsSubstr(part, path)
    \/ /\ IsFile(fs, disk, path)
       /\ \E suf \in MetadataFileSuffixes : EndsWith(path, suf)
       /\ IsSubstr(METADATA_SUBDIR, path)
    \/ IsSubstr(TEMPLATE_SCHEMAS_DIR, path)

\* no dataset root (Python None)
NoRoot == <<>>

\* the loop of _find_dataset_root, from the directory current upwards
RECURSIVE WalkUp(_, _)
WalkUp(fs, current) ==
    IF DocExists(fs, DatasetStructuralPath(current)) THEN current
    ELSE IF dirname(current) = current THEN NoRoot
    ELSE WalkUp(fs, dirname(current))

\* FolderCreationHandler._find_dataset_root
_find_dataset_root(fs, live, path) ==
    WalkUp(fs, IF path \in live THEN path ELSE dirname(path))

\* project_data.get("project_identifier") of the parent's descriptive
\* document, None when the document does not exist
ReadProjectId(fs, parent_dir) ==
    IF DocExists(fs, ProjectDescriptivePath(parent_dir))
    THEN Get(Load(fs, ProjectDescriptivePath(parent_dir)), "project_identifier")
    ELSE JNull

\* generate_dataset_files as _handle_directory_creation calls it: under the
\* parent's project_identifier, or under the parent's folder name when the
\* parent has none
GenerateUnderParent(fs, live, path, project_id, uuid) ==
    generate_dataset_files(fs, live, path,
        IF Truthy(project_id) THEN project_id.v ELSE basename(dirname(path)),
        uuid)

\* FolderCreationHandler._handle_directory_creation: [fs, drawn: uuid4() calls]
_handle_directory_creation(fs, live, path, uuid) ==
    Bind(basename(path), LAMBDA dirname_ :
    Bind(basename(dirname(path)), LAMBDA parent_dirname :
    IF StartsWith(dirname_, <<".">>)
       \/ dirname_ = <<"_", "_", "p", "y", "c", "a", "c", "h", "e", "_", "_">>
    THEN [fs |-> fs, drawn |-> 0]
    ELSE IF StartsWith(dirname_, PROJECT_PREFIX)
    THEN [fs |-> generate_project_file(fs, path, uuid), drawn |-> 1]
    ELSE IF StartsWith(parent_dirname, PROJECT_PREFIX)
    THEN [fs |-> GenerateUnderParent(fs, live, path,
                     ReadProjectId(fs, dirname(path)), uuid),
          drawn |-> 1]
    ELSE [fs |-> fs, drawn |-> 0]))

\* what a handler did: the files after it, the uuid4() calls it made, and the
\* result of the process_new_file call it made (ok = FALSE when it made none)
Handled(fs, drawn, ok, branch) == [fs |-> fs, drawn |-> drawn, ok |-> ok, branch |-> branch]

\* a handler's process_new_file call, after drawn uuid4() calls
Process(fs, disk, file_path, dataset_root, drawn) ==
    Bind(process_new_file(fs, disk, file_path, dataset_root), LAMBDA processed :
    Handled(processed.fs, drawn, processed.ok, processed.branch))

\* FolderCreationHandler._handle_file_creation
_handle_file_creation(fs, live, disk, file_path, uuid) ==
    IF disk[file_path] = NoFile THEN Handled(fs, 0, FALSE, "")
    ELSE IF _should_ignore_path(fs, disk, file_path) THEN Handled(fs, 0, FALSE, "")
    ELSE IF IsSubstr(METADATA_SUBDIR, file_path) THEN Handled(fs, 0, FALSE, "")
    ELSE
    Bind(_find_dataset_root(fs, live, file_path), LAMBDA dataset_root :
    IF dataset_root # NoRoot THEN Process(fs, disk, file_path, dataset_root, 0)
    ELSE
    Bind(dirname(file_path), LAMBDA dataset_path :
    Bind(ReadProjectId(fs, dirname(dataset_path)), LAMBDA project_id :
    IF StartsWith(basename(dirname(dataset_path)), PROJECT_PREFIX) /\ Truthy(project_id)
    THEN Bind(generate_dataset_files(fs, live, dataset_path, project_id.v, uuid),
              LAMBDA generated :
         IF _should_ignore_path(generated, disk, file_path)
         THEN Handled(generated, 1, FALSE, "")
         ELSE Process(generated, disk, file_path, dataset_path, 1))
    ELSE Handled(fs, 0, FALSE, ""))))

\* a handler's _handle_directory_creation call
HandleDirectory(fs, live, path, uuid) ==
    Bind(_handle_directory_creation(fs, live, path, uuid), LAMBDA r :
    Handled(r.fs, r.drawn, FALSE, ""))

\* FolderCreationHandler.on_created
on_created(fs, live, disk, path, uuid) ==
    IF _should_ignore_path(fs, disk, path) THEN Handled(fs, 0, FALSE, "")
    ELSE IF path \in live THEN HandleDirectory(fs, live, path, uuid)
    ELSE _handle_file_creation(fs, live, disk, path, uuid)

\* FolderCreationHandler.on_moved, for the destination path
on_moved(fs, live, disk, dest_path, uuid) ==
    IF _should_ignore_path(fs, disk, dest_path) THEN Handled(fs, 0, FALSE, "")
    ELSE IF dest_path \in live THEN HandleDirectory(fs, live, dest_path, uuid)
    ELSE
    Bind(_find_dataset_root(fs, live, dest_path), LAMBDA dataset_root :
    IF dataset_root # NoRoot THEN Process(fs, disk, dest_path, dataset_root, 0)
    ELSE _handle_file_creation(fs, live, disk, dest_path, uuid))

\* what a Modified event led to: the files after it, whether the completion
\* gate ran and what it returned, whether complete_metadata.json was written
Modified(fs, checked, is_complete, experiment_id, wrote) ==
    [fs |-> fs, checked |-> checked, is_complete |-> is_complete,
     experiment_id |-> experiment_id, wrote |-> wrote]

\* the gate, and generate_complete_metadata_file when the gate returned
\* is_complete with a truthy experiment_id
GateThenComplete(fs, dataset_path) ==
    Bind(check_contextual_metadata_completion(fs, dataset_path), LAMBDA gate :
    IF gate.is_complete /\ Truthy(gate.experiment_id)
    THEN Bind(generate_complete_metadata_file(gate.fs, dataset_path, gate.experiment_id),
              LAMBDA complete :
         Modified(complete.fs, TRUE, TRUE, gate.experiment_id, complete.ok))
    ELSE Modified(gate.fs, TRUE, gate.is_complete, gate.experiment_id, FALSE))

\* FolderCreationHandler._handle_file_modification
_handle_file_modification(fs, file_path) ==
    IF EndsWith(file_path, ExperimentContextualName) /\ IsSubstr(METADATA_SUBDIR, file_path)
    THEN GateThenComplete(fs, dirname(dirname(file_path)))
    ELSE Modified(fs, FALSE, FALSE, JNull, FALSE)

\* FolderCreationHandler.on_modified, for a file (a directory is left alone)
on_modified(fs, live, disk, src_path) ==
    IF _should_ignore_path(fs, disk, src_path) THEN Modified(fs, FALSE, FALSE, JNull, FALSE)
    ELSE IF src_path \in live THEN Modified(fs, FALSE, FALSE, JNull, FALSE)
    ELSE _handle_file_modification(fs, src_path)

(***************************************************************************)
(* Folder monitor: the start-up sweep                                      *)
(***************************************************************************)
\* process_file_with_dirmeta over the files of a dataset root, in walk order
RECURSIVE ProcessAll(_, _, _, _)
ProcessAll(fs, disk, order, dataset_root) ==
    IF order = <<>> THEN fs
    ELSE ProcessAll(
             IF disk[Head(order)] # NoFile /\ ~_should_ignore_path(fs, disk, Head(order))
             THEN process_new_file(fs, disk, Head(order), dataset_root).fs
             ELSE fs,
             disk, Tail(order), dataset_root)

\* the sweep at the project directory: the descriptive document if it is
\* missing, then the administrative one if it is missing
SweepProjectAt(fs, project_path, uuid) ==
    Bind(IF ~DocExists(fs, ProjectDescriptivePath(project_path))
         THEN generate_project_file(fs, project_path, uuid) ELSE fs,
         LAMBDA fs1 :
    IF /\ ~DocExists(fs1, ProjectAdministrativePath(project_path))
       /\ DocExists(fs1, ProjectDescriptivePath(project_path))
       /\ Truthy(ReadProjectId(fs1, project_path))
    THEN _generate_project_admin_file(fs1, project_path, ReadProjectId(fs1, project_path))
    ELSE fs1)

\* the sweep at the project directory p_X
SweepProject(fs, uuid) == SweepProjectAt(fs, ProjectPath, uuid)

\* the sweep at the dataset directory: the dataset documents if the
\* structural one is missing, then the files of the directory
SweepDataset(fs, live, disk, uuid, order) ==
    Bind(IF /\ \/ StartsWith(basename(DatasetPath), DATASET_PREFIX)
               \/ ~StartsWith(basename(DatasetPath), <<".">>)
            /\ ~DocExists(fs, DatasetStructuralPath(DatasetPath))
         THEN GenerateUnderParent(fs, live, DatasetPath,
                  ReadProjectId(fs, ProjectPath), uuid)
         ELSE fs,
         LAMBDA fs3 :
    IF DocExists(fs3, DatasetStructuralPath(DatasetPath))
    THEN ProcessAll(fs3, disk, order, DatasetPath)
    ELSE fs3)

\* FolderMonitor._process_existing_files: [fs, drawn].  os.walk is top-down:
\* the project directory is visited before its dataset directory; order is
\* the order in which the walk lists the dataset's files.
_process_existing_files(fs, live, disk, uuid1, uuid2, order) ==
    IF ProjectPath \notin live \/ _should_ignore_path(fs, disk, ProjectPath)
    THEN [fs |-> fs, drawn |-> 0]
    ELSE
    Bind(IF DocExists(fs, ProjectDescriptivePath(ProjectPath)) THEN 0 ELSE 1,
         LAMBDA drawn1 :
    Bind(SweepProject(fs, uuid1), LAMBDA fs2 :
    IF DatasetPath \notin live \/ _should_ignore_path(fs2, disk, DatasetPath)
    THEN [fs |-> fs2, drawn |-> drawn1]
    ELSE [fs |-> SweepDataset(fs2, live, disk,
                     IF drawn1 = 1 THEN uuid2 ELSE uuid1, order),
          drawn |-> drawn1 + (IF DocExists(fs2, DatasetStructuralPath(DatasetPath))
                              THEN 0 ELSE 1)]))

(***************************************************************************)
(* Metadata API service                                                    *)
(***************************************************************************)
\* the metadata types of the API and the file each maps to; complete_metadata
\* and project_administrative are not in update_metadata's metadata_mapping
MetadataTypes ==
    {"project_descriptive", "dataset_administrative", "dataset_structural",
     "experiment_contextual", "project_administrative", "complete_metadata"}

metadata_mapping(metadata_type) ==
    CASE metadata_type = "project_descriptive" -> ProjectDescriptiveName
      [] metadata_type = "dataset_administrative" -> DatasetAdministrativeName
      [] metadata_type = "dataset_structural" -> DatasetStructuralName
      [] metadata_type = "experiment_contextual" -> ExperimentContextualName
      [] OTHER -> <<>>

\* MetadataService._protected_identifier_fields
_protected_identifier_fields(metadata_type) ==
    CASE metadata_type = "project_descriptive" -> {"project_identifier"}
      [] metadata_type = "dataset_structural" ->
             {"dataset_identifier", "associated_project_identifier"}
      [] metadata_type = "dataset_administrative" ->
             {"dataset_identifier_link", "associated_project_identifier"}
      [] metadata_type = "experiment_contextual" ->
             {"experiment_template_type", "experiment_identifier_run_id",
              "dataset_identifier_link"}
      [] OTHER -> {}

\* the restoring loop left out: the merged content is saved as it is
_enforce_system_identifiers_NoRestore(metadata_type, new_content, existing_content) ==
    new_content

\* MetadataService._enforce_system_identifiers
_enforce_system_identifiers(metadata_type, new_content, existing_content) ==
    Bind(_protected_identifier_fields(metadata_type) \cap DOMAIN existing_content,
         LAMBDA restored :
    [f \in DOMAIN new_content \cup restored |->
        IF f \in restored THEN existing_content[f] ELSE new_content[f]])

\* the audit fields update_metadata applies to a contextual document
\* before it validates
ApplyAuditFields(merged_content, existing_content) ==
    Update(merged_content,
        Update(IF Truthy(Get(merged_content, "created_by")) THEN EmptyObj
               ELSE [created_by |->
                        IF "created_by" \in DOMAIN existing_content
                        THEN existing_content["created_by"]
                        ELSE JStr("system")],
               [last_modified_by |-> JStr("system")]))

\* the schema update_metadata validates against
UpdateSchema(metadata_type, merged_content, existing_content) ==
    CASE metadata_type = "experiment_contextual" ->
             GateSchema(IF Truthy(Get(merged_content, "experiment_template_type"))
                        THEN Get(merged_content, "experiment_template_type")
                        ELSE Get(existing_content, "experiment_template_type"))
      [] metadata_type = "project_descriptive" -> get_project_schema
      [] metadata_type = "dataset_administrative" -> get_dataset_admin_schema
      [] OTHER -> get_dataset_struct_schema

\* update_metadata that saves the merged content without validating it
update_metadata_NoValidation(fs, dataset_path, metadata_type, payload) ==
    IF metadata_mapping(metadata_type) = <<>> THEN [fs |-> fs, ok |-> FALSE]
    ELSE
    Bind(MetaPath(dataset_path, metadata_mapping(metadata_type)), LAMBDA metadata_file :
    Bind(IF DocExists(fs, metadata_file) THEN Load(fs, metadata_file) ELSE EmptyObj,
         LAMBDA existing_content :
    [fs |-> WriteDoc(fs, metadata_file,
                _enforce_system_identifiers(metadata_type,
                    Update(existing_content, payload), existing_content)),
     ok |-> TRUE]))

\* MetadataService.update_metadata: [fs, ok: "Metadata saved successfully."]
update_metadata(fs, dataset_path, metadata_type, payload) ==
    IF metadata_mapping(metadata_type) = <<>> THEN [fs |-> fs, ok |-> FALSE]
    ELSE
    Bind(MetaPath(dataset_path, metadata_mapping(metadata_type)), LAMBDA metadata_file :
    Bind(IF DocExists(fs, metadata_file) THEN Load(fs, metadata_file) ELSE EmptyObj,
         LAMBDA existing_content :
    Bind(IF metadata_type = "experiment_contextual"
         THEN ApplyAuditFields(Update(existing_content, payload), existing_content)
         ELSE Update(existing_content, payload),
         LAMBDA merged_content :
    IF UpdateSchema(metadata_type, merged_content, existing_content) = NoSchema
    THEN [fs |-> fs, ok |-> FALSE]
    ELSE
    IF ~validate_json(merged_content,
                      UpdateSchema(metadata_type, merged_content, existing_content))
    THEN [fs |-> fs, ok |-> FALSE]
    ELSE [fs |-> WriteDoc(fs, metadata_file,
                     _enforce_system_identifiers(metadata_type, merged_content,
                                                 existing_content)),
          ok |-> TRUE])))

\* get_metadata's schema_mapping
schema_mapping(metadata_type) ==
    CASE metadata_type = "project_descriptive" -> "project_descriptive.json"
      [] metadata_type = "project_administrative" -> "project_administrative_schema.json"
      [] metadata_type = "dataset_administrative" -> "dataset_administrative_schema.json"
      [] metadata_type = "dataset_structural" -> "dataset_structural_schema.json"
      [] metadata_type = "experiment_contextual" -> "experiment_contextual_schema.json"
      [] OTHER -> ""

\* re.fullmatch(r"[0-9a-fA-F\-]{36}", run_id) on a string: the identifiers
\* uuid4 draws match, no other string of the model does
uuid_like(run_id) ==
    run_id.t = "string" /\ \E n \in 1..6 : run_id.v = UuidStr(n)

\* the backfill get_metadata applies to a contextual document: experiment_name
\* is added when missing and a run id that is not a UUID is replaced by a new
\* one (no run id of the model has the legacy exp_ form the first step looks for)
Backfill(content, new_uuid) ==
    Bind(IF "experiment_name" \in DOMAIN content THEN content
         ELSE Update(content, [experiment_name |-> JStr("")]),
         LAMBDA named :
    IF uuid_like(Get(content, "experiment_identifier_run_id")) THEN named
    ELSE Update(named, [experiment_identifier_run_id |-> JStr(new_uuid)]))

\* the schema name get_metadata describes: the template's own schema when the
\* document names a template type whose schema loads, else the mapped one
DescribedSchema(metadata_type, content) ==
    IF metadata_type = "experiment_contextual"
       /\ Truthy(Get(content, "experiment_template_type"))
       /\ get_contextual_template_schema(Get(content, "experiment_template_type").v)
              # NoSchema
    THEN TemplatePath(Get(content, "experiment_template_type").v)
    ELSE schema_mapping(metadata_type)

\* MetadataService.get_metadata: the files after the call, whether it
\* returned, the schema it describes and schema_info.source; drew tells
\* whether the backfill drew a UUID
get_metadata(fs, dataset_path, metadata_type, new_uuid) ==
    Bind(MetaPath(dataset_path, metadata_mapping(metadata_type)), LAMBDA metadata_file :
    IF metadata_mapping(metadata_type) = <<>> \/ ~DocExists(fs, metadata_file)
    THEN [fs |-> fs, ok |-> FALSE, schema_name |-> "", source |-> "", drew |-> FALSE]
    ELSE
    Bind(IF metadata_type = "experiment_contextual"
         THEN Backfill(Load(fs, metadata_file), new_uuid)
         ELSE Load(fs, metadata_file),
         LAMBDA content :
    Bind(IF content # Load(fs, metadata_file) THEN WriteDoc(fs, metadata_file, content)
         ELSE fs,
         LAMBDA fs1 :
    Bind(DescribedSchema(metadata_type, content), LAMBDA schema_name :
    [fs |-> fs1,
     ok |-> load_schema(schema_name) # NoSchema,
     schema_name |-> schema_name,
     source |-> IF schema_name # schema_mapping(metadata_type) THEN "packaged_default"
                ELSE get_schema_resolution_info(schema_name),
     drew |-> metadata_type = "experiment_contextual"
              /\ ~uuid_like(Get(Load(fs, metadata_file), "experiment_identifier_run_id"))]))))

\* MetadataService.finalize_dataset
finalize_dataset(fs, dataset_path) == GateThenComplete(fs, dataset_path)

\* a status derivation that counts a dataset as ingested only while its
\* structural document lists a file
_get_dataset_info_NeedsRecords(fs, dataset_path) ==
    IF DocExists(fs, CompleteMetadataPath(dataset_path)) THEN "V2_Finalized"
    ELSE IF DocExists(fs, DatasetStructuralPath(dataset_path))
            /\ FileDescriptions(Load(fs, DatasetStructuralPath(dataset_path))) # <<>>
    THEN "V1_Ingested"
    ELSE "V0_Initial"

\* ProjectService._get_dataset_info: the metadata_status it reports
_get_dataset_info(fs, dataset_path) ==
    IF DocExists(fs, CompleteMetadataPath(dataset_path)) THEN "V2_Finalized"
    ELSE IF DocExists(fs, DatasetStructuralPath(dataset_path)) THEN "V1_Ingested"
    ELSE "V0_Initial"

(***************************************************************************)
(* Payloads a client may send and orders in which a walk may list files    *)
(***************************************************************************)
\* payload.content of an update_metadata call, per metadata type
Payloads(metadata_type) ==
    CASE metadata_type = "project_descriptive" ->
             { [project_identifier |-> JStr("client-id"),
                project_title |-> JStr("copy"),
                created_by |-> JStr("client")],
               [project_identifier |-> JStr("client-id-2")] }
      [] metadata_type = "dataset_administrative" ->
             { [dataset_identifier_link |-> JStr("client-id")] }
      [] metadata_type = "dataset_structural" ->
             { [dataset_identifier |-> JStr("client-id")],
               [dataset_title |-> JStr("")] }
      [] metadata_type = "experiment_contextual" ->
             { [protocol_deviations |-> JStr("none")],
               [experiment_identifier_run_id |-> JStr("client-id")],
               [created_by |-> JStr(SENTINEL)] }
      [] OTHER -> { EmptyObj }

\* payload.schema_id of a create_contextual_template call ("" is None)
SchemaIds == {"", "object_template"}

\* orders in which os.walk may list the data files of the dataset directory
WalkOrders == { <<FileA, FileB>>, <<FileB, FileA>> }

\* paths a watcher event may name: whatever exists under the monitored root
Existing(live, disk, fs) ==
    live \cup {f \in Files : disk[f] # NoFile} \cup {d \in DocPaths : fs[d].exists}

\* MetadataService._find_dataset("d_Y") finds the dataset directory
DatasetFound(live) == ProjectPath \in live /\ DatasetPath \in live

\* the task ids a caller submits
TaskIds == {"task-1", "task-2"}

\* BackgroundTaskManager.__init__: tasks maps a task id to the status of its
\* BackgroundTask ("" when the dict has no such key), task_queue holds the
\* ids submitted, running_tasks the ids _execute_task is in; detached holds
\* the ids whose executing BackgroundTask cleanup has deleted from the dict
NoManager ==
    [tasks |-> [id \in TaskIds |-> ""], task_queue |-> <<>>, running_tasks |-> {},
     detached |-> {}]

\* MemoryCache.get finds no entry, or finds an expired one and deletes it
NoEntry == [hit |-> FALSE, value |-> ""]

\* a CacheEntry that has not expired
CacheEntry(value) == [hit |-> TRUE, value |-> value]

(***************************************************************************)
(* Initial state and the operations                                        *)
(***************************************************************************)
\* the tree and the processes before anything has happened
Boot ==
    /\ dirs = {}
    /\ files = [f \in Files |-> NoFile]
    /\ docs = [d \in DocPaths |-> NoDoc]
    /\ running = FALSE
    /\ nextUuid = 1
    /\ lastOp = NoOp
    /\ pending = NoWrite
    /\ procs = NoProcs
    /\ cache = NoEntry
    /\ manager = NoManager

Init ==
    /\ Boot
    /\ config = DefaultConfig

\* a user makes the project directory, or the dataset directory inside it
MakeDirectory(d) ==
    /\ d \notin dirs
    /\ dirname(d) = MONITOR_PATH \/ dirname(d) \in dirs
    /\ dirs' = dirs \cup {d}
    /\ lastOp' = [NoOp EXCEPT !.op = "mkdir"]
    /\ UNCHANGED <<manager, cache, config, procs, pending, files, docs, running, nextUuid>>

\* a user writes a data file into the dataset directory
PutFile(f, c) ==
    /\ dirname(f) \in dirs
    /\ files[f] # c
    /\ files' = [files EXCEPT ![f] = c]
    /\ lastOp' = [NoOp EXCEPT !.op = "put"]
    /\ UNCHANGED <<manager, cache, config, procs, pending, dirs, docs, running, nextUuid>>

\* FolderMonitor.start_monitoring, with its sweep of what already exists
StartMonitoring(order) ==
    /\ ~running
    /\ \E r \in {_process_existing_files(docs, dirs, files,
                       UuidStr(nextUuid), UuidStr(nextUuid + 1), order)} :
        /\ nextUuid + r.drawn <= MaxUuid + 1
        /\ running' = TRUE
        /\ docs' = r.fs
        /\ nextUuid' = nextUuid + r.drawn
        /\ lastOp' = [NoOp EXCEPT !.op = "sweep", !.path = MONITOR_PATH]
        /\ UNCHANGED <<manager, cache, config, procs, pending, dirs, files>>

\* FolderMonitor.stop_monitoring
StopMonitoring ==
    /\ running
    /\ running' = FALSE
    /\ lastOp' = [NoOp EXCEPT !.op = "stop", !.path = MONITOR_PATH]
    /\ UNCHANGED <<manager, cache, config, procs, pending, dirs, files, docs, nextUuid>>

\* the watcher delivers a Created event for path
OnCreated(path) ==
    /\ running
    /\ path \in Existing(dirs, files, docs)
    /\ \E r \in {on_created(docs, dirs, files, path, UuidStr(nextUuid))} :
        /\ nextUuid + r.drawn <= MaxUuid + 1
        /\ docs' = r.fs
        /\ nextUuid' = nextUuid + r.drawn
        /\ lastOp' = [NoOp EXCEPT !.op = "on_created", !.path = path,
                                  !.ok = r.ok, !.branch = r.branch]
        /\ UNCHANGED <<manager, cache, config, procs, pending, dirs, files, running>>

\* the watcher delivers a Moved event whose destination is path
OnMoved(path) ==
    /\ running
    /\ path \in Existing(dirs, files, docs)
    /\ \E r \in {on_moved(docs, dirs, files, path, UuidStr(nextUuid))} :
        /\ nextUuid + r.drawn <= MaxUuid + 1
        /\ docs' = r.fs
        /\ nextUuid' = nextUuid + r.drawn
        /\ lastOp' = [NoOp EXCEPT !.op = "on_moved", !.path = path,
                                  !.ok = r.ok, !.branch = r.branch]
        /\ UNCHANGED <<manager, cache, config, procs, pending, dirs, files, running>>

\* the watcher delivers a Modified event for path
OnModified(path) ==
    /\ running
    /\ path \in Existing(dirs, files, docs)
    /\ \E r \in {on_modified(docs, dirs, files, path)} :
        /\ docs' = r.fs
        /\ lastOp' = [NoOp EXCEPT !.op = "on_modified", !.path = path,
                                  !.checked = r.checked,
                                  !.is_complete = r.is_complete,
                                  !.experiment_id = r.experiment_id,
                                  !.wrote = r.wrote]
        /\ UNCHANGED <<manager, cache, config, procs, pending, dirs, files, running, nextUuid>>

\* PUT metadata: MetadataService.update_metadata
UpdateMetadata(metadata_type, payload) ==
    /\ DatasetFound(dirs)
    /\ \E r \in {update_metadata(docs, DatasetPath, metadata_type, payload)} :
        /\ docs' = r.fs
        /\ lastOp' = [NoOp EXCEPT !.op = "update_metadata",
                                  !.path = MetaPath(DatasetPath, metadata_mapping(metadata_type)),
                                  !.kind = metadata_type, !.ok = r.ok]
        /\ UNCHANGED <<manager, cache, config, procs, pending, dirs, files, running, nextUuid>>

\* POST contextual template: MetadataService.create_contextual_template
CreateContextualTemplate(schema_id) ==
    /\ DatasetFound(dirs)
    /\ nextUuid <= MaxUuid
    /\ docs' = create_experiment_contextual_template(docs, DatasetPath,
                   UuidStr(nextUuid), schema_id)
    /\ nextUuid' = nextUuid + 1
    /\ lastOp' = [NoOp EXCEPT !.op = "create_contextual_template",
                              !.path = ExperimentContextualPath(DatasetPath),
                              !.kind = schema_id]
    /\ UNCHANGED <<manager, cache, config, procs, pending, dirs, files, running>>

\* POST finalize: MetadataService.finalize_dataset
FinalizeDataset ==
    /\ DatasetFound(dirs)
    /\ \E r \in {finalize_dataset(docs, DatasetPath)} :
        /\ docs' = r.fs
        /\ lastOp' = [NoOp EXCEPT !.op = "finalize_dataset", !.path = DatasetPath,
                                  !.ok = r.wrote, !.checked = r.checked,
                                  !.is_complete = r.is_complete,
                                  !.experiment_id = r.experiment_id,
                                  !.wrote = r.wrote]
        /\ UNCHANGED <<manager, cache, config, procs, pending, dirs, files, running, nextUuid>>

\* GET datasets of the project: the status ProjectService reports
ListDatasets ==
    /\ DatasetFound(dirs)
    /\ lastOp' = [NoOp EXCEPT !.op = "get_project_datasets", !.path = DatasetPath,
                              !.status = _get_dataset_info(docs, DatasetPath)]
    /\ UNCHANGED <<manager, cache, config, procs, pending, dirs, files, docs, running, nextUuid>>

\* the payload that fills the one gated field the materializer leaves open
Filled == [protocol_deviations |-> JStr("none")]

\* Lifecycle of the tree under the running monitor: directories and data
\* files appear, the watcher and the sweep handle them, a client creates the
\* default contextual template, fills it and finalizes.
Next ==
    \/ \E d \in Dirs : MakeDirectory(d)
    \/ \E f \in Files : \E c \in FileContents(f) : PutFile(f, c)
    \/ \E order \in WalkOrders : StartMonitoring(order)
    \/ StopMonitoring
    \/ \E path \in Dirs \cup Files : OnCreated(path)
    \/ \E path \in Dirs \cup Files : OnMoved(path)
    \/ \E path \in Files \cup {ExperimentContextualPath(DatasetPath)} : OnModified(path)
    \/ CreateContextualTemplate("")
    \/ UpdateMetadata("experiment_contextual", Filled)
    \/ FinalizeDataset
    \/ ListDatasets

Spec == Init /\ [][Next]_vars

\* The metadata API over a tree without data files: every metadata type,
\* every payload and every template a client may name.
NextApi ==
    \/ \E d \in Dirs : MakeDirectory(d)
    \/ \E order \in WalkOrders : StartMonitoring(order)
    \/ \E path \in Dirs : OnCreated(path)
    \/ OnModified(ExperimentContextualPath(DatasetPath))
    \/ \E schema_id \in SchemaIds : CreateContextualTemplate(schema_id)
    \/ \E metadata_type \in MetadataTypes :
           \E payload \in Payloads(metadata_type) : UpdateMetadata(metadata_type, payload)
    \/ FinalizeDataset
    \/ ListDatasets

SpecApi == Init /\ [][NextApi]_vars

(***************************************************************************)
(* The writes of a handler at the grain of the filesystem: each document   *)
(* is written by open(path, "w"), which truncates it, and json.dump, which *)
(* fills it, while a client may read.  A document a handler writes more    *)
(* than once is shown at its last write.                                   *)
(***************************************************************************)
\* the documents in the order in which the handlers write them
WriteOrder ==
    << ProjectDescriptivePath(ProjectPath), ProjectAdministrativePath(ProjectPath),
       ProjectDescriptivePath(DatasetPath), DatasetAdministrativePath(DatasetPath),
       DatasetStructuralPath(DatasetPath), ExperimentContextualPath(DatasetPath),
       CompleteMetadataPath(DatasetPath) >>

\* the documents the handler has still to write
Unwritten == {i \in 1..Len(WriteOrder) : docs[WriteOrder[i]] # pending.target[WriteOrder[i]]}

\* the document the handler writes next
NextWrite == WriteOrder[CHOOSE i \in Unwritten : \A j \in Unwritten : i <= j]

\* a handler that computed the documents fs starts writing them
Stage(fs) == IF fs = docs THEN NoWrite ELSE [active |-> TRUE, target |-> fs]

\* start_monitoring begins the writes of its sweep
BeginStartMonitoring(order) ==
    /\ ~running
    /\ ~pending.active
    /\ \E r \in {_process_existing_files(docs, dirs, files,
                       UuidStr(nextUuid), UuidStr(nextUuid + 1), order)} :
        /\ nextUuid + r.drawn <= MaxUuid + 1
        /\ running' = TRUE
        /\ pending' = Stage(r.fs)
        /\ nextUuid' = nextUuid + r.drawn
        /\ lastOp' = [NoOp EXCEPT !.op = "sweep", !.path = MONITOR_PATH]
        /\ UNCHANGED <<manager, cache, config, procs, dirs, files, docs>>

\* the handler of a Created event begins its writes: document generation
\* for a directory, the file-record update for a data file
BeginOnCreated(path) ==
    /\ running
    /\ ~pending.active
    /\ path \in Existing(dirs, files, docs)
    /\ \E r \in {on_created(docs, dirs, files, path, UuidStr(nextUuid))} :
        /\ nextUuid + r.drawn <= MaxUuid + 1
        /\ pending' = Stage(r.fs)
        /\ nextUuid' = nextUuid + r.drawn
        /\ lastOp' = [NoOp EXCEPT !.op = "on_created", !.path = path,
                                  !.ok = r.ok, !.branch = r.branch]
        /\ UNCHANGED <<manager, cache, config, procs, dirs, files, docs, running>>

\* update_metadata begins its write
BeginUpdateMetadata(metadata_type, payload) ==
    /\ DatasetFound(dirs)
    /\ ~pending.active
    /\ \E r \in {update_metadata(docs, DatasetPath, metadata_type, payload)} :
        /\ pending' = Stage(r.fs)
        /\ lastOp' = [NoOp EXCEPT !.op = "update_metadata",
                                  !.path = MetaPath(DatasetPath, metadata_mapping(metadata_type)),
                                  !.kind = metadata_type, !.ok = r.ok]
        /\ UNCHANGED <<manager, cache, config, procs, dirs, files, docs, running, nextUuid>>

\* open(path, "w"): the document the handler writes next is truncated
OpenForWrite ==
    /\ pending.active
    /\ docs[NextWrite] # Truncated
    /\ docs' = [docs EXCEPT ![NextWrite] = Truncated]
    /\ lastOp' = [NoOp EXCEPT !.op = "open", !.path = NextWrite]
    /\ UNCHANGED <<manager, cache, config, procs, dirs, files, running, nextUuid, pending>>

\* json.dump and the close of the file: the truncated document is filled
Dump ==
    /\ pending.active
    /\ docs[NextWrite] = Truncated
    /\ docs' = [docs EXCEPT ![NextWrite] = pending.target[NextWrite]]
    /\ pending' = IF Unwritten = {CHOOSE i \in Unwritten : WriteOrder[i] = NextWrite}
                  THEN NoWrite ELSE pending
    /\ lastOp' = [NoOp EXCEPT !.op = "dump", !.path = NextWrite]
    /\ UNCHANGED <<manager, cache, config, procs, dirs, files, running, nextUuid>>

\* GET metadata: MetadataService.get_metadata reads a document of the
\* dataset; ok is whether json.load found a whole document
ReadDocument(d) ==
    /\ DatasetFound(dirs)
    /\ docs[d].exists
    /\ lastOp' = [NoOp EXCEPT !.op = "get_metadata", !.path = d,
                              !.ok = (docs[d] # Truncated)]
    /\ UNCHANGED <<manager, cache, config, procs, dirs, files, docs, running, nextUuid, pending>>

\* the documents get_metadata serves without its backfill of the contextual
\* document: for these metadata types the call only reads
ReadablePaths ==
    { ProjectDescriptivePath(DatasetPath), DatasetAdministrativePath(DatasetPath),
      DatasetStructuralPath(DatasetPath) }

NextWrites ==
    \/ \E d \in Dirs : MakeDirectory(d)
    \/ \E c \in FileContents(FileA) : PutFile(FileA, c)
    \/ \E order \in WalkOrders : BeginStartMonitoring(order)
    \/ \E path \in Dirs \cup {FileA} : BeginOnCreated(path)
    \/ \E metadata_type \in MetadataTypes :
           \E payload \in Payloads(metadata_type) :
               BeginUpdateMetadata(metadata_type, payload)
    \/ OpenForWrite
    \/ Dump
    \/ \E d \in ReadablePaths : ReadDocument(d)

SpecWrites == Init /\ [][NextWrites]_vars

(***************************************************************************)
(* The sweep and a handler side by side.  start_monitoring starts the      *)
(* observer before it calls _process_existing_files, so the observer's     *)
(* thread handles events while the main thread sweeps.  A step is one      *)
(* access to the filesystem: an existence test, the load of the structural *)
(* document, its write, or the generation of the dataset documents.        *)
(***************************************************************************)
\* the files a thread sees when the structural document is the one it loaded
\* and the data file is as the scanner read it
SeenDocs(p) == [docs EXCEPT ![DatasetStructuralPath(DatasetPath)] = p.struct]
SeenFiles(p) == [files EXCEPT ![p.file] = p.content]

\* start_monitoring: the observer is started, then the sweep begins its walk
SweepBegin ==
    /\ ~running
    /\ procs = NoProcs
    /\ running' = TRUE
    /\ procs' = [procs EXCEPT !.sweep.pc =
                     IF ProjectPath \in dirs /\ ~_should_ignore_path(docs, files, ProjectPath)
                     THEN "project" ELSE "done"]
    /\ lastOp' = [NoOp EXCEPT !.op = "sweep", !.path = MONITOR_PATH]
    /\ UNCHANGED <<manager, cache, config, dirs, files, docs, nextUuid, pending>>

\* the walk at the project directory: the project documents that are missing
SweepAtProject ==
    /\ procs.sweep.pc = "project"
    /\ \E drawn \in {IF DocExists(docs, ProjectDescriptivePath(ProjectPath)) THEN 0 ELSE 1} :
        /\ nextUuid + drawn <= MaxUuid + 1
        /\ docs' = SweepProject(docs, UuidStr(nextUuid))
        /\ nextUuid' = nextUuid + drawn
    /\ procs' = [procs EXCEPT !.sweep.pc =
                     IF DatasetPath \in dirs /\ ~_should_ignore_path(docs, files, DatasetPath)
                     THEN "exists" ELSE "done"]
    /\ lastOp' = [NoOp EXCEPT !.op = "sweep_project", !.path = ProjectPath]
    /\ UNCHANGED <<manager, cache, config, dirs, files, running, pending>>

\* the walk at the project directory, for its dataset directory:
\* os.path.exists(struct_path)
SweepTestStructural ==
    /\ procs.sweep.pc = "exists"
    /\ procs' = [procs EXCEPT !.sweep.pc =
                     IF DocExists(docs, DatasetStructuralPath(DatasetPath))
                     THEN "walk" ELSE "generate"]
    /\ lastOp' = [NoOp EXCEPT !.op = "sweep_exists", !.path = DatasetPath]
    /\ UNCHANGED <<manager, cache, config, dirs, files, docs, running, nextUuid, pending>>

\* the walk found no structural document: generate_dataset_files
SweepGenerate ==
    /\ procs.sweep.pc = "generate"
    /\ nextUuid <= MaxUuid
    /\ docs' = GenerateUnderParent(docs, dirs, DatasetPath,
                   ReadProjectId(docs, ProjectPath), UuidStr(nextUuid))
    /\ nextUuid' = nextUuid + 1
    /\ procs' = [procs EXCEPT !.sweep.pc = "walk"]
    /\ lastOp' = [NoOp EXCEPT !.op = "sweep_generate", !.path = DatasetPath]
    /\ UNCHANGED <<manager, cache, config, dirs, files, running, pending>>

\* the walk at the dataset directory: the data files it lists, when the
\* structural document exists
SweepListFiles(order) ==
    /\ procs.sweep.pc = "walk"
    /\ procs' = IF DocExists(docs, DatasetStructuralPath(DatasetPath))
                THEN [procs EXCEPT !.sweep.pc = "next",
                                   !.sweep.queue = SelectSeq(order, LAMBDA f : files[f] # NoFile)]
                ELSE [procs EXCEPT !.sweep.pc = "done"]
    /\ lastOp' = [NoOp EXCEPT !.op = "sweep_walk", !.path = DatasetPath]
    /\ UNCHANGED <<manager, cache, config, dirs, files, docs, running, nextUuid, pending>>

\* the walk takes the next file it listed
SweepNextFile ==
    /\ procs.sweep.pc = "next"
    /\ procs' = IF procs.sweep.queue = <<>>
                THEN [procs EXCEPT !.sweep.pc = "done"]
                ELSE IF _should_ignore_path(docs, files, Head(procs.sweep.queue))
                THEN [procs EXCEPT !.sweep.queue = Tail(@)]
                ELSE [procs EXCEPT !.sweep.pc = "scan",
                                   !.sweep.file = Head(procs.sweep.queue),
                                   !.sweep.queue = Tail(@)]
    /\ lastOp' = [NoOp EXCEPT !.op = "sweep_next", !.path = DatasetPath]
    /\ UNCHANGED <<manager, cache, config, dirs, files, docs, running, nextUuid, pending>>

\* where a thread goes on after a process_new_file call
AfterProcess(t) == IF t = "sweep" THEN "next" ELSE "idle"

\* process_new_file up to the load of the structural document: the size
\* test, the scan of the file, os.path.exists and json.load
ProcessLoad(t) ==
    /\ procs[t].pc = "scan"
    /\ procs' = IF \/ files[procs[t].file] = NoFile
                   \/ files[procs[t].file].size < MIN_FILE_SIZE
                   \/ ~DocExists(docs, DatasetStructuralPath(DatasetPath))
                THEN [procs EXCEPT ![t].pc = AfterProcess(t), ![t].file = <<>>]
                ELSE [procs EXCEPT ![t].pc = "dump",
                                   ![t].content = files[procs[t].file],
                                   ![t].struct = docs[DatasetStructuralPath(DatasetPath)]]
    /\ lastOp' = [NoOp EXCEPT !.op = "load", !.path = procs[t].file, !.kind = t]
    /\ UNCHANGED <<manager, cache, config, dirs, files, docs, running, nextUuid, pending>>

\* ProcessDump when the record were put into the document as it is on disk at
\* the time of the write
ProcessDump_Reloading(t) ==
    /\ procs[t].pc = "dump"
    /\ \E r \in {process_new_file(docs, SeenFiles(procs[t]),
                                  procs[t].file, DatasetPath)} :
        /\ docs' = IF r.ok
                   THEN [docs EXCEPT ![DatasetStructuralPath(DatasetPath)] =
                                         r.fs[DatasetStructuralPath(DatasetPath)]]
                   ELSE docs
        /\ procs' = [procs EXCEPT ![t].pc = AfterProcess(t), ![t].file = <<>>,
                                  ![t].content = NoFile, ![t].struct = NoDoc,
                                  ![t].did = @ \/ (r.ok /\ procs[t].file = FileA)]
        /\ lastOp' = [NoOp EXCEPT !.op = "dump", !.path = procs[t].file, !.kind = t,
                                  !.ok = r.ok, !.branch = r.branch]
    /\ UNCHANGED <<manager, cache, config, dirs, files, running, nextUuid, pending>>

\* process_new_file from the load on: the record is put into the document
\* the thread loaded, and that document is written
ProcessDump(t) ==
    /\ procs[t].pc = "dump"
    /\ \E r \in {process_new_file(SeenDocs(procs[t]), SeenFiles(procs[t]),
                                  procs[t].file, DatasetPath)} :
        /\ docs' = IF r.ok
                   THEN [docs EXCEPT ![DatasetStructuralPath(DatasetPath)] =
                                         r.fs[DatasetStructuralPath(DatasetPath)]]
                   ELSE docs
        /\ procs' = [procs EXCEPT ![t].pc = AfterProcess(t), ![t].file = <<>>,
                                  ![t].content = NoFile, ![t].struct = NoDoc,
                                  ![t].did = @ \/ (r.ok /\ procs[t].file = FileA)]
        /\ lastOp' = [NoOp EXCEPT !.op = "dump", !.path = procs[t].file, !.kind = t,
                                  !.ok = r.ok, !.branch = r.branch]
    /\ UNCHANGED <<manager, cache, config, dirs, files, running, nextUuid, pending>>

\* the observer's thread takes a Created event of a data file:
\* _handle_file_creation up to and with _find_dataset_root
HandlerBegin(file_path) ==
    /\ running
    /\ procs.handler.pc = "idle"
    /\ files[file_path] # NoFile
    /\ ~_should_ignore_path(docs, files, file_path)
    /\ procs' = IF _find_dataset_root(docs, dirs, file_path) # NoRoot
                THEN [procs EXCEPT !.handler.pc = "scan", !.handler.file = file_path]
                ELSE [procs EXCEPT !.handler.pc = "project_id", !.handler.file = file_path]
    /\ lastOp' = [NoOp EXCEPT !.op = "on_created", !.path = file_path]
    /\ UNCHANGED <<manager, cache, config, dirs, files, docs, running, nextUuid, pending>>

\* no dataset root was found: the handler reads the project's identifier
HandlerReadProject ==
    /\ procs.handler.pc = "project_id"
    /\ procs' = IF Truthy(ReadProjectId(docs, ProjectPath))
                THEN [procs EXCEPT !.handler.pc = "generate",
                                   !.handler.project_id = ReadProjectId(docs, ProjectPath).v]
                ELSE [procs EXCEPT !.handler.pc = "idle", !.handler.file = <<>>]
    /\ lastOp' = [NoOp EXCEPT !.op = "read_project", !.path = ProjectPath]
    /\ UNCHANGED <<manager, cache, config, dirs, files, docs, running, nextUuid, pending>>

\* the handler generates the dataset documents before it processes the file
HandlerGenerate ==
    /\ procs.handler.pc = "generate"
    /\ nextUuid <= MaxUuid
    /\ docs' = generate_dataset_files(docs, dirs, DatasetPath,
                   procs.handler.project_id, UuidStr(nextUuid))
    /\ nextUuid' = nextUuid + 1
    /\ procs' = [procs EXCEPT !.handler.pc = "scan", !.handler.project_id = <<>>]
    /\ lastOp' = [NoOp EXCEPT !.op = "generate", !.path = DatasetPath]
    /\ UNCHANGED <<manager, cache, config, dirs, files, running, pending>>

NextSweep ==
    \/ \E d \in Dirs : MakeDirectory(d)
    \/ \E f \in Files : \E c \in FileContents(f) : PutFile(f, c)
    \/ SweepBegin
    \/ SweepAtProject
    \/ SweepTestStructural
    \/ SweepGenerate
    \/ \E order \in WalkOrders : SweepListFiles(order)
    \/ SweepNextFile
    \/ \E t \in {"sweep", "handler"} : ProcessLoad(t)
    \/ \E t \in {"sweep", "handler"} : ProcessDump(t)
    \/ \E f \in Files : HandlerBegin(f)
    \/ HandlerReadProject
    \/ HandlerGenerate

SpecSweep == Init /\ [][NextSweep]_vars

(***************************************************************************)
(* Schema resolution under a configuration with overrides                  *)
(***************************************************************************)
\* the schema names whose files outside the packaged directory are studied
StudiedNames ==
    {"dataset_structural_schema.json", "experiment_contextual_schema.json",
     "contextual/object_template.json"}

\* the configurations: the table of explicit overrides is keyed by file names
\* without a directory, so contextual/<type>.json can have no entry
SchemaConfigs ==
    { c \in [strict : {TRUE}, name : StudiedNames,
             explicit : {"none", "file", "missing"}, local : BOOLEAN,
             custom : {"unset", "missing", "file"}, packaged : BOOLEAN,
             allow_missing : {FALSE}] :
        c.name = "contextual/object_template.json" => c.explicit = "none" }

InitSchema ==
    /\ Boot
    /\ config \in SchemaConfigs

\* a caller resolves a schema name
ResolveSchema(schema_name) ==
    /\ lastOp' = [NoOp EXCEPT !.op = "resolve_schema_path",
                              !.schema_name = schema_name,
                              !.ok = resolve_schema_path(schema_name).exists,
                              !.resolved = resolve_schema_path(schema_name).tier]
    /\ UNCHANGED <<manager, cache, config, procs, pending, dirs, files, docs, running, nextUuid>>

\* GET schema resolution info: resolved_path comes from resolve_schema_path,
\* resolution_source from the function's own tests
GetSchemaResolutionInfo(schema_name) ==
    /\ lastOp' = [NoOp EXCEPT !.op = "get_schema_resolution_info",
                              !.schema_name = schema_name,
                              !.ok = TRUE,
                              !.resolved = resolve_schema_path(schema_name).tier,
                              !.source = get_schema_resolution_info(schema_name)]
    /\ UNCHANGED <<manager, cache, config, procs, pending, dirs, files, docs, running, nextUuid>>

\* GET metadata of the dataset
GetMetadata(metadata_type) ==
    /\ DatasetFound(dirs)
    /\ nextUuid <= MaxUuid
    /\ \E r \in {get_metadata(docs, DatasetPath, metadata_type, UuidStr(nextUuid))} :
        /\ docs' = r.fs
        /\ nextUuid' = IF r.drew THEN nextUuid + 1 ELSE nextUuid
        /\ lastOp' = [NoOp EXCEPT !.op = "get_metadata",
                                  !.kind = metadata_type,
                                  !.ok = r.ok,
                                  !.schema_name = r.schema_name,
                                  !.resolved = IF r.schema_name = "" THEN ""
                                               ELSE resolve_schema_path(r.schema_name).tier,
                                  !.source = r.source,
                                  !.wrote = (r.fs # docs)]
    /\ UNCHANGED <<manager, cache, config, procs, pending, dirs, files, running>>

\* the schema names callers ask for
AskedNames == StudiedNames \cup {"project_descriptive.json"}

NextSchema ==
    \/ \E d \in Dirs : MakeDirectory(d)
    \/ \E order \in WalkOrders : StartMonitoring(order)
    \/ \E schema_id \in SchemaIds : CreateContextualTemplate(schema_id)
    \/ \E metadata_type \in MetadataTypes : GetMetadata(metadata_type)
    \/ \E schema_name \in AskedNames : ResolveSchema(schema_name)
    \/ \E schema_name \in AskedNames : GetSchemaResolutionInfo(schema_name)

SpecSchema == InitSchema /\ [][NextSchema]_vars

(***************************************************************************)
(* Validation modes: documents written under a site's own schemas          *)
(***************************************************************************)
\* the configurations: strict or lenient validation, and at most one of three
\* schemas overridden in the local override directory by the site's version
ValidateConfigs ==
    { [DefaultConfig EXCEPT !.strict = strict, !.name = name, !.local = (name # "")] :
        strict \in BOOLEAN,
        name \in {"", "project_descriptive.json", "dataset_administrative_schema.json",
                  "dataset_structural_schema.json"} }

\* the backend, its monitor not running, is started again under another
\* configuration
Reconfigure(c) ==
    /\ ~running
    /\ c # config
    /\ config' = c
    /\ lastOp' = [NoOp EXCEPT !.op = "initialize_config"]
    /\ UNCHANGED <<manager, cache, procs, pending, dirs, files, docs, running, nextUuid>>

\* payload.content of an update_metadata call on a tree whose schemas may
\* ask for a reference_code
ValidatePayloads(metadata_type) ==
    CASE metadata_type = "project_descriptive" ->
             { [reference_code |-> JStr("REF-1")] }
      [] metadata_type = "dataset_administrative" ->
             { [reference_code |-> JStr("REF-1")] }
      [] metadata_type = "dataset_structural" ->
             { [reference_code |-> JStr("REF-1")], [reference_code |-> JStr("none")],
               [dataset_title |-> JStr("")] }
      [] OTHER -> { EmptyObj }

\* generate_project_file is called for the project directory
GenerateProjectFile ==
    /\ ProjectPath \in dirs
    /\ nextUuid <= MaxUuid
    /\ docs' = generate_project_file(docs, ProjectPath, UuidStr(nextUuid))
    /\ nextUuid' = nextUuid + 1
    /\ lastOp' = [NoOp EXCEPT !.op = "generate_project_file", !.path = ProjectPath,
                              !.ok = generate_project_file_returns(ProjectPath,
                                         UuidStr(nextUuid))]
    /\ UNCHANGED <<manager, cache, config, procs, pending, dirs, files, running>>

\* the project_id the directory handler passes to generate_dataset_files
ParentProjectId ==
    IF Truthy(ReadProjectId(docs, ProjectPath)) THEN ReadProjectId(docs, ProjectPath).v
    ELSE basename(ProjectPath)

\* generate_dataset_files is called for the dataset directory
GenerateDatasetFiles ==
    /\ DatasetPath \in dirs
    /\ nextUuid <= MaxUuid
    /\ docs' = generate_dataset_files(docs, dirs, DatasetPath, ParentProjectId,
                                      UuidStr(nextUuid))
    /\ nextUuid' = nextUuid + 1
    /\ \E r \in {generate_dataset_files_returns(docs, dirs, DatasetPath,
                       ParentProjectId, UuidStr(nextUuid))} :
        lastOp' = [NoOp EXCEPT !.op = "generate_dataset_files", !.path = DatasetPath,
                               !.admin_file = r.admin_file,
                               !.struct_file = r.struct_file]
    /\ UNCHANGED <<manager, cache, config, procs, pending, dirs, files, running>>

\* process_new_file is called for the first data file of the dataset
ProcessNewFile ==
    /\ DatasetPath \in dirs
    /\ files[FileA] # NoFile
    /\ \E r \in {process_new_file(docs, files, FileA, DatasetPath)} :
        /\ docs' = r.fs
        /\ lastOp' = [NoOp EXCEPT !.op = "process_new_file", !.path = FileA,
                                  !.ok = r.ok, !.branch = r.branch]
    /\ UNCHANGED <<manager, cache, config, procs, pending, dirs, files, running, nextUuid>>

\* the one content the data file is given here
ValidateContent == [size |-> 20, digest |-> "sha-20"]

NextValidate ==
    \/ \E d \in Dirs : MakeDirectory(d)
    \/ PutFile(FileA, ValidateContent)
    \/ \E c \in ValidateConfigs : Reconfigure(c)
    \/ GenerateProjectFile
    \/ GenerateDatasetFiles
    \/ ProcessNewFile
    \/ \E metadata_type \in {"project_descriptive", "dataset_administrative",
                              "dataset_structural"} :
           \E payload \in ValidatePayloads(metadata_type) :
               UpdateMetadata(metadata_type, payload)

SpecValidate == Init /\ [][NextValidate]_vars

(***************************************************************************)
(* The completion gate on a template with fields of every type            *)
(***************************************************************************)
\* the values a user may give a field when editing experiment_contextual.json
\* by hand; Absent stands for the field taken out of the document
Absent == [t |-> "absent", v |-> <<>>]

EditValues(field) ==
    CASE field = "dataset_identifier_link" -> {Absent, JStr("")}
      [] field = "sample_count" -> {JNull, JNum(3)}
      [] field = "instruments" -> {JArr(<<JStr("scope")>>)}
      [] OTHER -> {JObj([gain |-> JInt(2)])}

EditFields == {"dataset_identifier_link", "sample_count", "instruments", "settings"}

\* a user edits one field of the contextual document on disk
EditContextual(field, value) ==
    /\ DocExists(docs, ExperimentContextualPath(DatasetPath))
    /\ ~DocExists(docs, CompleteMetadataPath(DatasetPath))
    /\ docs' = WriteDoc(docs, ExperimentContextualPath(DatasetPath),
                   Bind(Load(docs, ExperimentContextualPath(DatasetPath)), LAMBDA content :
                   IF value = Absent
                   THEN [f \in DOMAIN content \ {field} |-> content[f]]
                   ELSE Update(content, [g \in {field} |-> value])))
    /\ docs' # docs
    /\ lastOp' = [NoOp EXCEPT !.op = "edit", !.path = ExperimentContextualPath(DatasetPath),
                              !.kind = field]
    /\ UNCHANGED <<manager, cache, config, procs, pending, dirs, files, running, nextUuid>>

NextGate ==
    \/ \E d \in Dirs : MakeDirectory(d)
    \/ StartMonitoring(<<FileA, FileB>>)
    \/ CreateContextualTemplate("measurement_template")
    \/ \E field \in EditFields : \E value \in EditValues(field) :
           EditContextual(field, value)
    \/ FinalizeDataset

SpecGate == Init /\ [][NextGate]_vars

(***************************************************************************)
(* Collaborators: the version control manager and the external scanner     *)
(***************************************************************************)
\* the calls to a collaborator an operation makes; raised, below, is the set
\* of those that raise in one run of the operation
Collaborators == {"git", "dvc", "scanner"}

\* DirmetaScanner._create_basic_metadata: size_bytes from stat and the
\* checksum from calculate_checksum_incremental
_create_basic_metadata(content) ==
    [size |-> content.size, digest |-> content.digest]

\* DirmetaScanner.scan_file: the dirmeta result standardised, or, when the
\* dirmeta scan raises, the basic metadata
scan_file(content, raised) ==
    IF "scanner" \in raised THEN _create_basic_metadata(content)
    ELSE [size |-> content.size, digest |-> content.digest]

\* a version control call that raises with no try around it
commit_metadata_changes_Unguarded(raised) ==
    raised \cap {"git", "dvc"} # {}

\* try: vc_manager.commit_metadata_changes(...) [add_data_file_to_dvc(...)]
\* except Exception: warning -- whether an exception leaves the block
commit_metadata_changes(raised) ==
    FALSE

\* FileProcessor.process_new_file with its collaborators: [fs, ok, branch]
process_new_file_with(fs, disk, file_path, dataset_path, raised) ==
    IF disk[file_path] = NoFile THEN [fs |-> fs, ok |-> FALSE, branch |-> ""]
    ELSE IF disk[file_path].size < MIN_FILE_SIZE
    THEN [fs |-> fs, ok |-> FALSE, branch |-> ""]
    ELSE
    Bind(_update_dataset_structural_file(fs, dataset_path,
             _map_scanner_output_to_schema(scan_file(disk[file_path], raised),
                                           file_path, dataset_path),
             file_path), LAMBDA r :
    IF r.ok /\ commit_metadata_changes(raised)
    THEN [r EXCEPT !.ok = FALSE]
    ELSE r)

\* what generate_project_file returns when its commit may raise
generate_project_file_with(project_path, project_id, raised) ==
    /\ generate_project_file_returns(project_path, project_id)
    /\ ~commit_metadata_changes(raised)

\* what generate_dataset_files returns when its commit may raise
generate_dataset_files_with(fs, live, dataset_path, project_id, dataset_id, raised) ==
    IF commit_metadata_changes(raised)
    THEN [admin_file |-> FALSE, struct_file |-> FALSE]
    ELSE generate_dataset_files_returns(fs, live, dataset_path, project_id,
                                        dataset_id)

\* MetadataService.update_metadata when its commit may raise: [fs, ok]
update_metadata_with(fs, dataset_path, metadata_type, payload, raised) ==
    Bind(update_metadata(fs, dataset_path, metadata_type, payload), LAMBDA r :
    IF r.ok /\ commit_metadata_changes(raised)
    THEN [r EXCEPT !.ok = FALSE]
    ELSE r)

\* generate_project_file is called and its commit ends as raised says
GenerateProjectFileWith(raised) ==
    /\ ProjectPath \in dirs
    /\ nextUuid <= MaxUuid
    /\ docs' = generate_project_file(docs, ProjectPath, UuidStr(nextUuid))
    /\ nextUuid' = nextUuid + 1
    /\ lastOp' = [NoOp EXCEPT !.op = "generate_project_file", !.path = ProjectPath,
                              !.ok = generate_project_file_with(ProjectPath,
                                         UuidStr(nextUuid), raised),
                              !.raised = raised]
    /\ UNCHANGED <<manager, cache, config, procs, pending, dirs, files, running>>

\* generate_dataset_files is called and its commit ends as raised says
GenerateDatasetFilesWith(raised) ==
    /\ DatasetPath \in dirs
    /\ nextUuid <= MaxUuid
    /\ docs' = generate_dataset_files(docs, dirs, DatasetPath, ParentProjectId,
                                      UuidStr(nextUuid))
    /\ nextUuid' = nextUuid + 1
    /\ \E r \in {generate_dataset_files_with(docs, dirs, DatasetPath,
                       ParentProjectId, UuidStr(nextUuid), raised)} :
        lastOp' = [NoOp EXCEPT !.op = "generate_dataset_files", !.path = DatasetPath,
                               !.admin_file = r.admin_file,
                               !.struct_file = r.struct_file,
                               !.raised = raised]
    /\ UNCHANGED <<manager, cache, config, procs, pending, dirs, files, running>>

\* process_new_file is called and its collaborators end as raised says
ProcessNewFileWith(f, raised) ==
    /\ DatasetPath \in dirs
    /\ files[f] # NoFile
    /\ \E r \in {process_new_file_with(docs, files, f, DatasetPath, raised)} :
        /\ docs' = r.fs
        /\ lastOp' = [NoOp EXCEPT !.op = "process_new_file", !.path = f,
                                  !.ok = r.ok, !.branch = r.branch,
                                  !.raised = raised]
    /\ UNCHANGED <<manager, cache, config, procs, pending, dirs, files, running, nextUuid>>

\* PUT metadata, the commit after the save ending as raised says
UpdateMetadataWith(metadata_type, payload, raised) ==
    /\ DatasetFound(dirs)
    /\ \E r \in {update_metadata_with(docs, DatasetPath, metadata_type, payload,
                                      raised)} :
        /\ docs' = r.fs
        /\ lastOp' = [NoOp EXCEPT !.op = "update_metadata",
                                  !.path = MetaPath(DatasetPath, metadata_mapping(metadata_type)),
                                  !.kind = metadata_type, !.ok = r.ok,
                                  !.raised = raised]
        /\ UNCHANGED <<manager, cache, config, procs, pending, dirs, files, running, nextUuid>>

\* payload.content of the update_metadata calls made here
CollabPayloads ==
    { [dataset_title |-> JStr(<<"Z">>)], [dataset_title |-> JStr(<<"W">>)] }

NextCollab ==
    \/ \E d \in Dirs : MakeDirectory(d)
    \/ \E f \in Files : PutFile(f, ValidateContent)
    \/ \E raised \in SUBSET {"git"} : GenerateProjectFileWith(raised)
    \/ \E raised \in SUBSET {"git"} : GenerateDatasetFilesWith(raised)
    \/ \E f \in Files : \E raised \in SUBSET Collaborators :
           ProcessNewFileWith(f, raised)
    \/ \E payload \in CollabPayloads : \E raised \in SUBSET {"git"} :
           UpdateMetadataWith("dataset_structural", payload, raised)

SpecCollab == Init /\ [][NextCollab]_vars

(***************************************************************************)
(* The classifier on directories made under a running monitor              *)
(***************************************************************************)
ClassifyDirs == {ProjectPath, DatasetPath, EnvsProjectPath, DistPath, DistProjectPath}

\* start_monitoring on a root that holds nothing yet
StartOnEmptyRoot ==
    /\ dirs = {}
    /\ StartMonitoring(<<FileA, FileB>>)

NextClassify ==
    \/ StartOnEmptyRoot
    \/ \E d \in ClassifyDirs : MakeDirectory(d)
    \/ \E d \in ClassifyDirs : OnCreated(d)

SpecClassify == Init /\ [][NextClassify]_vars

(***************************************************************************)
(* The upward walk when the monitored root lies inside another dataset     *)
(***************************************************************************)
\* the structural document of a dataset whose directory is the parent of the
\* monitored root
OuterStructData ==
    DatasetStructData(<<"/", "d", "_", "O">>, UuidStr(5), UuidStr(6))

\* the backend is constructed on a root whose parent may hold a dataset's
\* .metadata directory
InitWalk ==
    /\ config = DefaultConfig
    /\ dirs = {}
    /\ files = [f \in Files |-> NoFile]
    /\ \E outer \in {NoDoc, Doc(OuterStructData)} :
        docs = [d \in DocPaths |->
                   IF d = DatasetStructuralPath(<<"/">>) THEN outer ELSE NoDoc]
    /\ running = FALSE
    /\ nextUuid = 1
    /\ lastOp = NoOp
    /\ pending = NoWrite
    /\ procs = NoProcs
    /\ cache = NoEntry
    /\ manager = NoManager

NextWalk ==
    \/ StartOnEmptyRoot
    \/ \E d \in Dirs : MakeDirectory(d)
    \/ \E f \in Files : PutFile(f, ValidateContent)
    \/ \E path \in Dirs \cup Files : OnCreated(path)

SpecWalk == InitWalk /\ [][NextWalk]_vars

(***************************************************************************)
(* The dataset listing behind its cache                                    *)
(***************************************************************************)
\* @cached(ttl_seconds=120) around get_project_datasets:
\* [value: what the call returns, entry: the cache entry it leaves]
cached(entry, fs, dataset_path) ==
    IF entry.hit THEN [value |-> entry.value, entry |-> entry]
    ELSE [value |-> _get_dataset_info(fs, dataset_path),
          entry |-> CacheEntry(_get_dataset_info(fs, dataset_path))]

\* GET datasets of the project, as the API serves it
GetProjectDatasets ==
    /\ DatasetFound(dirs)
    /\ \E r \in {cached(cache, docs, DatasetPath)} :
        /\ cache' = r.entry
        /\ lastOp' = [NoOp EXCEPT !.op = "get_project_datasets", !.path = DatasetPath,
                                  !.status = r.value]
    /\ UNCHANGED <<manager, config, procs, pending, dirs, files, docs, running, nextUuid>>

\* the entry's ttl_seconds go by: CacheEntry.is_expired
EntryExpires ==
    /\ cache.hit
    /\ cache' = NoEntry
    /\ lastOp' = [NoOp EXCEPT !.op = "ttl"]
    /\ UNCHANGED <<manager, config, procs, pending, dirs, files, docs, running, nextUuid>>

NextCache ==
    \/ \E d \in Dirs : MakeDirectory(d)
    \/ PutFile(FileA, ValidateContent)
    \/ StartOnEmptyRoot
    \/ \E path \in Dirs \cup {FileA} : OnCreated(path)
    \/ CreateContextualTemplate("")
    \/ UpdateMetadata("experiment_contextual", Filled)
    \/ FinalizeDataset
    \/ GetProjectDatasets
    \/ EntryExpires

SpecCache == Init /\ [][NextCache]_vars

(***************************************************************************)
(* Aggregation over trees that hold some of the five documents             *)
(***************************************************************************)
\* the documents the engine generates for the project, the dataset and one
\* experiment
GeneratedTree ==
    create_experiment_contextual_template(
        generate_dataset_files(
            generate_project_file([d \in DocPaths |-> NoDoc], ProjectPath, UuidStr(1)),
            Dirs, DatasetPath, UuidStr(1), UuidStr(2)),
        DatasetPath, UuidStr(3), "")

\* the five documents as a set
RequiredSet == {RequiredFiles(DatasetPath)[i] : i \in 1..5}

\* the backend is constructed on a tree made earlier, of whose five documents
\* any may be missing
InitComplete ==
    /\ config = DefaultConfig
    /\ dirs = Dirs
    /\ files = [f \in Files |-> NoFile]
    /\ \E kept \in SUBSET RequiredSet :
        docs = [d \in DocPaths |-> IF d \in kept THEN GeneratedTree[d] ELSE NoDoc]
    /\ running = FALSE
    /\ nextUuid = 4
    /\ lastOp = NoOp
    /\ pending = NoWrite
    /\ procs = NoProcs
    /\ cache = NoEntry
    /\ manager = NoManager

\* generate_complete_metadata_file is called for the dataset
GenerateCompleteMetadataFile(experiment_id) ==
    /\ \E r \in {generate_complete_metadata_file(docs, DatasetPath, experiment_id)} :
        /\ docs' = r.fs
        /\ lastOp' = [NoOp EXCEPT !.op = "generate_complete_metadata_file",
                                  !.path = DatasetPath, !.ok = r.ok,
                                  !.experiment_id = experiment_id]
    /\ UNCHANGED <<manager, cache, config, procs, pending, dirs, files, running, nextUuid>>

NextComplete ==
    \/ \E experiment_id \in {JStr(UuidStr(3)), JStr(UuidStr(4))} :
           GenerateCompleteMetadataFile(experiment_id)
    \/ UpdateMetadata("experiment_contextual", Filled)
    \/ FinalizeDataset

SpecComplete == InitComplete /\ [][NextComplete]_vars

(***************************************************************************)
(* Contextual templates made with and without an experiment id             *)
(***************************************************************************)
\* the experiment id when none is generated for a caller who supplies none
ExperimentId_NoneGenerated(experiment_id, uuid) == experiment_id

\* if not experiment_id: experiment_id = str(uuid.uuid4())  ("" is None)
ExperimentId(experiment_id, uuid) ==
    IF experiment_id = "" THEN uuid ELSE experiment_id

\* the experiment ids and template types a caller passes
SuppliedIds == {"", "exp-1", "exp-2"}
SuppliedTemplates == {"", "object_template", "missing_template"}

\* create_experiment_contextual_template is called for the dataset
CreateExperimentContextualTemplate(experiment_id, template_type) ==
    /\ DatasetPath \in dirs
    /\ experiment_id = "" => nextUuid <= MaxUuid
    /\ docs' = create_experiment_contextual_template(docs, DatasetPath,
                   ExperimentId(experiment_id, UuidStr(nextUuid)), template_type)
    /\ nextUuid' = IF experiment_id = "" THEN nextUuid + 1 ELSE nextUuid
    /\ lastOp' = [NoOp EXCEPT !.op = "create_experiment_contextual_template",
                              !.path = ExperimentContextualPath(DatasetPath),
                              !.kind = template_type,
                              !.experiment_id = IF experiment_id = "" THEN JNull
                                                ELSE JStr(experiment_id)]
    /\ UNCHANGED <<manager, cache, config, procs, pending, dirs, files, running>>

NextTemplate ==
    \/ StartOnEmptyRoot
    \/ \E d \in Dirs : MakeDirectory(d)
    \/ \E d \in Dirs : OnCreated(d)
    \/ \E experiment_id \in SuppliedIds : \E template_type \in SuppliedTemplates :
           CreateExperimentContextualTemplate(experiment_id, template_type)

SpecTemplate == Init /\ [][NextTemplate]_vars

(***************************************************************************)
(* The sweep over a root that holds two projects                           *)
(***************************************************************************)
\* FolderMonitor._process_existing_files on a root that may hold the project
\* p_envs beside p_X: os.walk leaves out the directories _should_ignore_path
\* names and visits the others; uuids are the next values of uuid4()
_process_existing_files_two(fs, live, disk, uuids, order) ==
    Bind(_process_existing_files(fs, live, disk, uuids[1], uuids[2], order),
         LAMBDA first :
    IF EnvsProjectPath \notin live \/ _should_ignore_path(first.fs, disk, EnvsProjectPath)
    THEN first
    ELSE [fs |-> SweepProjectAt(first.fs, EnvsProjectPath, uuids[first.drawn + 1]),
          drawn |-> first.drawn
                    + (IF DocExists(first.fs, ProjectDescriptivePath(EnvsProjectPath))
                       THEN 0 ELSE 1)])

\* FolderMonitor.start_monitoring on such a root
StartMonitoringTwo(order) ==
    /\ ~running
    /\ \E r \in {_process_existing_files_two(docs, dirs, files,
                       <<UuidStr(nextUuid), UuidStr(nextUuid + 1),
                         UuidStr(nextUuid + 2)>>, order)} :
        /\ nextUuid + r.drawn <= MaxUuid + 1
        /\ running' = TRUE
        /\ docs' = r.fs
        /\ nextUuid' = nextUuid + r.drawn
        /\ lastOp' = [NoOp EXCEPT !.op = "sweep", !.path = MONITOR_PATH]
        /\ UNCHANGED <<manager, cache, config, procs, pending, dirs, files>>

RepairDirs == {ProjectPath, DatasetPath, EnvsProjectPath}

NextRepair ==
    \/ \E d \in RepairDirs : MakeDirectory(d)
    \/ PutFile(FileA, ValidateContent)
    \/ StartMonitoringTwo(<<FileA, FileB>>)
    \/ StopMonitoring
    \/ \E d \in RepairDirs : OnCreated(d)

SpecRepair == Init /\ [][NextRepair]_vars

(***************************************************************************)
(* Schemas that no tier resolves, with missing schemas allowed or not      *)
(***************************************************************************)
\* the configurations: one schema name has no file in any tier, and
\* schemas.allow_missing_schemas is set or not
MissingNames ==
    {"project_descriptive.json", "dataset_structural_schema.json",
     "complete_metadata_schema.json"}

MissingConfigs ==
    { [DefaultConfig EXCEPT !.name = name, !.packaged = FALSE,
                            !.allow_missing = allow_missing] :
        name \in MissingNames, allow_missing \in BOOLEAN }

NextMissing ==
    \/ \E d \in Dirs : MakeDirectory(d)
    \/ PutFile(FileA, ValidateContent)
    \/ \E c \in MissingConfigs : Reconfigure(c)
    \/ GenerateProjectFile
    \/ GenerateDatasetFiles
    \/ ProcessNewFile
    \/ CreateContextualTemplate("")
    \/ GenerateCompleteMetadataFile(JStr(UuidStr(3)))

SpecMissing == Init /\ [][NextMissing]_vars

(***************************************************************************)
(* The schema bodies the API serves                                        *)
(***************************************************************************)
\* the first of the locations AsyncSchemaManager.load_schema and
\* get_contextual_template_schema try that holds the file: the packaged
\* directory, then CUSTOM_SCHEMA_PATH, then MONITOR_PATH/.template_schemas
schema_locations(schema_name) ==
    IF PackagedExists(schema_name) THEN Resolved("packaged_default", TRUE)
    ELSE IF CustomOverrideExists(schema_name) THEN Resolved("custom_override", TRUE)
    ELSE IF LocalOverrideExists(schema_name) THEN Resolved("local_override", TRUE)
    ELSE Resolved("", FALSE)

\* schema_mapping of SchemaService.get_schema, and the file name of a
\* contextual schema
served_schema_name(schema_type, schema_id) ==
    CASE schema_type = "contextual" -> TemplatePath(schema_id)
      [] schema_type = "project" -> "project_descriptive.json"
      [] schema_type = "dataset_structural" -> "dataset_structural_schema.json"
      [] schema_type = "experiment_contextual" -> "experiment_contextual_schema.json"
      [] OTHER -> ""

\* the schemas a client asks for: <<schema_type, schema_id>>
ServedSchemas ==
    { <<"contextual", "object_template">>, <<"project", "project">>,
      <<"dataset_structural", "dataset_structural">>,
      <<"experiment_contextual", "experiment_contextual">>,
      <<"unknown_type", "x">> }

\* SchemaService.get_schema: ok is FALSE when ValueError is raised, source is
\* the location whose file is served
GetSchema(schema_type, schema_id) ==
    /\ \E schema_name \in {served_schema_name(schema_type, schema_id)} :
        lastOp' = [NoOp EXCEPT !.op = "get_schema",
                               !.kind = schema_type,
                               !.schema_name = schema_name,
                               !.ok = (schema_name # ""
                                       /\ schema_locations(schema_name).exists),
                               !.source = IF schema_name = "" THEN ""
                                          ELSE schema_locations(schema_name).tier]
    /\ UNCHANGED <<manager, cache, config, procs, pending, dirs, files, docs, running, nextUuid>>

NextServe ==
    \/ \E served \in ServedSchemas : GetSchema(served[1], served[2])
    \/ \E schema_name \in AskedNames : ResolveSchema(schema_name)

SpecServe == InitSchema /\ [][NextServe]_vars

(***************************************************************************)
(* Reads of contextual documents made with any experiment id               *)
(***************************************************************************)
NextRead ==
    \/ StartOnEmptyRoot
    \/ \E d \in Dirs : MakeDirectory(d)
    \/ \E d \in Dirs : OnCreated(d)
    \/ \E experiment_id \in SuppliedIds : \E template_type \in SuppliedTemplates :
           CreateExperimentContextualTemplate(experiment_id, template_type)
    \/ \E metadata_type \in {"experiment_contextual", "dataset_structural"} :
           GetMetadata(metadata_type)

SpecRead == Init /\ [][NextRead]_vars

(***************************************************************************)
(* Ingestion of files in the dataset directory and in a subfolder of it    *)
(***************************************************************************)
\* a subfolder of the dataset and a data file in it that has the base name
\* of a.txt
SubPath == PathJoin(DatasetPath, <<"s">>)
FileSubA == PathJoin(SubPath, basename(FileA))
NestedFiles == Files \cup {FileSubA}

\* the sizes the data files are given here
NestedContents == {[size |-> 20, digest |-> "sha-20"], [size |-> 30, digest |-> "sha-30"]}

InitNested ==
    /\ config = DefaultConfig
    /\ dirs = {}
    /\ files = [f \in NestedFiles |-> NoFile]
    /\ docs = [d \in DocPaths |-> NoDoc]
    /\ running = FALSE
    /\ nextUuid = 1
    /\ lastOp = NoOp
    /\ pending = NoWrite
    /\ procs = NoProcs
    /\ cache = NoEntry
    /\ manager = NoManager

\* FileProcessor.process_new_file is called for a file under the dataset
ProcessNewFileAt(f) ==
    /\ DatasetPath \in dirs
    /\ files[f] # NoFile
    /\ \E r \in {process_new_file(docs, files, f, DatasetPath)} :
        /\ docs' = r.fs
        /\ lastOp' = [NoOp EXCEPT !.op = "process_new_file", !.path = f,
                                  !.ok = r.ok, !.branch = r.branch]
    /\ UNCHANGED <<manager, cache, config, procs, pending, dirs, files, running, nextUuid>>

NextNested ==
    \/ \E d \in Dirs \cup {SubPath} : MakeDirectory(d)
    \/ \E f \in NestedFiles : \E c \in NestedContents : PutFile(f, c)
    \/ GenerateProjectFile
    \/ GenerateDatasetFiles
    \/ \E f \in NestedFiles : ProcessNewFileAt(f)

SpecNested == InitNested /\ [][NextNested]_vars

(***************************************************************************)
(* The background task manager                                             *)
(***************************************************************************)
MaxQueue == 3

\* TaskStatus.COMPLETED, FAILED, CANCELLED
TerminalStatuses == {"completed", "failed", "cancelled"}

\* BackgroundTaskManager.submit_task; ValueError when the id is in the dict
SubmitTask(task_id) ==
    /\ Len(manager.task_queue) < MaxQueue
    /\ manager' = IF manager.tasks[task_id] # "" THEN manager
                  ELSE [manager EXCEPT !.tasks[task_id] = "pending",
                                       !.task_queue = Append(@, task_id)]
    /\ lastOp' = [NoOp EXCEPT !.op = "submit_task", !.schema_name = task_id,
                              !.ok = (manager.tasks[task_id] = "")]
    /\ UNCHANGED <<cache, config, procs, pending, dirs, files, docs, running, nextUuid>>

\* BackgroundTaskManager.cancel_task
CancelTask(task_id) ==
    /\ manager' = IF manager.tasks[task_id] \in {""} \cup TerminalStatuses
                  THEN manager
                  ELSE [manager EXCEPT !.tasks[task_id] = "cancelled"]
    /\ lastOp' = [NoOp EXCEPT !.op = "cancel_task", !.schema_name = task_id,
                              !.ok = (manager.tasks[task_id]
                                          \notin {""} \cup TerminalStatuses)]
    /\ UNCHANGED <<cache, config, procs, pending, dirs, files, docs, running, nextUuid>>

\* _worker_loop takes the next id off the queue, skips it when its task is
\* gone or cancelled, and else enters _execute_task up to the await of the
\* task's function: between the test and the assignment of RUNNING the loop
\* does not yield (the semaphore is free, the loop runs one task at a time)
WorkerTakes ==
    /\ manager.task_queue # <<>>
    /\ manager.running_tasks = {}
    /\ \E task_id \in {Head(manager.task_queue)} :
        /\ manager' = IF manager.tasks[task_id] \in {"", "cancelled"}
                      THEN [manager EXCEPT !.task_queue = Tail(@)]
                      ELSE [manager EXCEPT !.task_queue = Tail(@),
                                           !.tasks[task_id] = "running",
                                           !.running_tasks = @ \cup {task_id}]
        /\ lastOp' = [NoOp EXCEPT !.op = "worker_loop", !.schema_name = task_id]
    /\ UNCHANGED <<cache, config, procs, pending, dirs, files, docs, running, nextUuid>>

\* _execute_task after the await: the function has returned (COMPLETED) or
\* raised (FAILED); the status is assigned to the BackgroundTask the call
\* holds, which is the dict's one unless cleanup has deleted it
TaskReturns(task_id, status) ==
    /\ task_id \in manager.running_tasks
    /\ manager' = [manager EXCEPT
                       !.tasks[task_id] = IF task_id \in manager.detached THEN @
                                          ELSE status,
                       !.running_tasks = @ \ {task_id},
                       !.detached = @ \ {task_id}]
    /\ lastOp' = [NoOp EXCEPT !.op = "execute_task", !.schema_name = task_id,
                              !.status = status]
    /\ UNCHANGED <<cache, config, procs, pending, dirs, files, docs, running, nextUuid>>

\* cleanup_old_tasks: the tasks in a terminal status that are older than the
\* cutoff, old, are deleted from the dict
CleanupOldTasks(old) ==
    /\ \E removed \in {{id \in old : manager.tasks[id] \in TerminalStatuses}} :
        /\ removed # {}
        /\ manager' = [manager EXCEPT
                           !.tasks = [id \in TaskIds |->
                                          IF id \in removed THEN "" ELSE @[id]],
                           !.detached = @ \cup (removed \cap manager.running_tasks)]
        /\ lastOp' = [NoOp EXCEPT !.op = "cleanup_old_tasks"]
    /\ UNCHANGED <<cache, config, procs, pending, dirs, files, docs, running, nextUuid>>

NextTasks ==
    \/ \E task_id \in TaskIds : SubmitTask(task_id)
    \/ \E task_id \in TaskIds : CancelTask(task_id)
    \/ WorkerTakes
    \/ \E task_id \in TaskIds : \E status \in {"completed", "failed"} :
           TaskReturns(task_id, status)
    \/ \E old \in SUBSET TaskIds : CleanupOldTasks(old)

SpecTasks == Init /\ [][NextTasks]_vars

(***************************************************************************)
(* Properties                                                              *)
(***************************************************************************)
\* the file records of the dataset's structural document
Records == FileDescriptions(Load(docs, DatasetStructuralPath(DatasetPath)))
RecordsAfter == FileDescriptions(Load(docs', DatasetStructuralPath(DatasetPath)))

\* the records whose file_name is that of file f
RecordsOf(f) == {i \in 1..Len(Records) : Records[i].file_name = basename(f)}

\* a watcher event for data file f was handled last and its process_new_file
\* call returned True
Ingested(f) ==
    /\ lastOp.op \in {"on_created", "on_moved"}
    /\ lastOp.path = f
    /\ lastOp.ok

\* C1: after process_new_file has succeeded for file f of the dataset, however
\* often it ran for f before, the structural document holds exactly one record
\* with file_name f, and that record is the one mapped from the file as the
\* latest invocation scanned it.
C1_IdempotentIngestion ==
    \A f \in Files :
        /\ Cardinality(RecordsOf(f)) <= 1
        /\ Ingested(f) =>
               /\ Cardinality(RecordsOf(f)) = 1
               /\ \A i \in RecordsOf(f) :
                      Records[i] = _map_scanner_output_to_schema(files[f], f, DatasetPath)

\* C1 witness: the event of a file that already had a record was handled
\* again (the update branch ran), beside the record of another file
C1_Witness ==
    /\ Ingested(FileA)
    /\ lastOp.branch = "updated"
    /\ files[FileA].size = 30
    /\ Len(Records) = 2

StatusRank(status) ==
    CASE status = "V2_Finalized" -> 2
      [] status = "V1_Ingested" -> 1
      [] OTHER -> 0

C3_ProjectIdentifierAssignedOnce ==
    [][Truthy(ReadProjectId(docs, ProjectPath))
           => ReadProjectId(docs', ProjectPath) = ReadProjectId(docs, ProjectPath)]_vars

\* C4: when the Created or Moved event of the dataset directory is handled
\* while its structural document already exists under the project's current
\* identifier, the structural document keeps its dataset_identifier, its
\* associated_project_identifier and its file records.
C4_DatasetGenerationIdempotent ==
    [][(/\ lastOp'.op \in {"on_created", "on_moved"}
        /\ lastOp'.path = DatasetPath
        /\ DocExists(docs, DatasetStructuralPath(DatasetPath))
        /\ Get(Load(docs, DatasetStructuralPath(DatasetPath)),
               "associated_project_identifier") = ReadProjectId(docs, ProjectPath))
       => /\ ReadDatasetId(docs', DatasetPath) = ReadDatasetId(docs, DatasetPath)
          /\ Get(Load(docs', DatasetStructuralPath(DatasetPath)),
                 "associated_project_identifier")
                 = Get(Load(docs, DatasetStructuralPath(DatasetPath)),
                       "associated_project_identifier")
          /\ RecordsAfter = Records]_vars

\* the contextual document of the dataset, before and after a step
Contextual == Load(docs, ExperimentContextualPath(DatasetPath))

\* the document an update_metadata call addressed, before and after the call
Addressed == Load(docs, lastOp'.path)
AddressedAfter == Load(docs', lastOp'.path)

\* C5: an update_metadata call of any metadata kind leaves every system
\* identifier field the existing document has at the value it had, whatever
\* the payload gives for it.
C5_SystemIdentifiersPreserved ==
    [][(lastOp'.op = "update_metadata" /\ DocExists(docs, lastOp'.path))
       => \A f \in _protected_identifier_fields(lastOp'.kind) \cap DOMAIN Addressed :
              /\ DocExists(docs', lastOp'.path)
              /\ f \in DOMAIN AddressedAfter
              /\ AddressedAfter[f] = Addressed[f]]_vars

\* C5 witness: an update of dataset_structural whose payload gave
\* dataset_identifier a client's value was saved, and the stored identifier
\* is still the generated one
C5_Witness ==
    /\ lastOp.op = "update_metadata"
    /\ lastOp.kind = "dataset_structural"
    /\ lastOp.ok
    /\ Truthy(ReadDatasetId(docs, DatasetPath))
    /\ ReadDatasetId(docs, DatasetPath) # JStr("client-id")

\* the required fields of the contextual document's schema
RequiredOfContextual == GateSchema(Get(Contextual, "experiment_template_type")).required

\* a value that is filled: not null, not empty, not the sentinel
Populated(value) ==
    /\ value.t # "null"
    /\ value.t = "string" => (value.v # "" /\ value.v # SENTINEL)

\* the contextual document exists with every required field other than the
\* audit fields and the template-type field populated
ContextualSatisfied ==
    /\ DocExists(docs, ExperimentContextualPath(DatasetPath))
    /\ \A f \in RequiredOfContextual \ ignore_fields : Populated(Get(Contextual, f))

\* the four documents complete_metadata.json aggregates beside the contextual one
OtherDocumentsExist ==
    \A i \in 1..4 : DocExists(docs, RequiredFiles(DatasetPath)[i])

\* C6: when the gate has run on a contextual document whose required fields
\* other than the audit fields and the template-type field are all populated
\* (the documents to aggregate being there), it returned is_complete = True
\* with a run identifier that is not None, and complete_metadata.json exists.
C6_GateOpensWhenSatisfied ==
    (lastOp.checked /\ ContextualSatisfied /\ OtherDocumentsExist)
    => /\ lastOp.is_complete
       /\ lastOp.experiment_id # JNull
       /\ DocExists(docs, CompleteMetadataPath(DatasetPath))

\* C7 as stated: when the gate has run on a contextual document one of whose
\* required fields equals the sentinel, or on no document, it returned
\* (False, None).
C7_GateClosesOnSentinel ==
    lastOp.checked
    => /\ (\E f \in RequiredOfContextual : Get(Contextual, f) = JStr(SENTINEL))
          => (~lastOp.is_complete /\ lastOp.experiment_id = JNull)
       /\ ~DocExists(docs, ExperimentContextualPath(DatasetPath))
          => (~lastOp.is_complete /\ lastOp.experiment_id = JNull)

\* C7 amended: when the gate has run on a contextual document one of whose
\* required fields other than the audit fields and the template-type field
\* equals the sentinel, or on no document, it returned (False, None).
C7_GateClosesOnGatedSentinel ==
    lastOp.checked
    => /\ (\E f \in RequiredOfContextual \ ignore_fields :
               Get(Contextual, f) = JStr(SENTINEL))
          => (~lastOp.is_complete /\ lastOp.experiment_id = JNull)
       /\ ~DocExists(docs, ExperimentContextualPath(DatasetPath))
          => (~lastOp.is_complete /\ lastOp.experiment_id = JNull)

\* C7 witness: the gate ran on a contextual document whose
\* protocol_deviations is still the sentinel
C7_Witness ==
    /\ lastOp.checked
    /\ DocExists(docs, ExperimentContextualPath(DatasetPath))
    /\ Get(Contextual, "protocol_deviations") = JStr(SENTINEL)
    /\ ~lastOp.is_complete

\* C8: whenever the watcher has handled a Modified event for the dataset's
\* experiment_contextual.json, the gate has run for the dataset, and if it
\* found the document complete, complete_metadata.json exists.
C8_ModifiedRunsTheGate ==
    (lastOp.op = "on_modified" /\ lastOp.path = ExperimentContextualPath(DatasetPath))
    => /\ lastOp.checked
       /\ lastOp.is_complete => DocExists(docs, CompleteMetadataPath(DatasetPath))

\* C9: once complete_metadata.json exists, handling a Modified event neither
\* writes it again nor changes it.
C9_V2IsTerminal ==
    [][(lastOp'.op = "on_modified" /\ DocExists(docs, CompleteMetadataPath(DatasetPath)))
       => /\ ~lastOp'.wrote
          /\ docs'[CompleteMetadataPath(DatasetPath)]
                 = docs[CompleteMetadataPath(DatasetPath)]]_vars

\* C9 witness: a Modified event for experiment_contextual.json was handled
\* while complete_metadata.json existed
C9_Witness ==
    /\ lastOp.op = "on_modified"
    /\ lastOp.path = ExperimentContextualPath(DatasetPath)
    /\ DocExists(docs, CompleteMetadataPath(DatasetPath))

\* C10: a client that reads a metadata document while the handlers write
\* never finds it truncated or half written.
C10_WritesAreAtomic ==
    lastOp.op = "get_metadata" => lastOp.ok

\* C11: when the sweep has finished and the observer's thread is idle, and
\* both have processed the first data file, the structural document holds
\* exactly one record of that file.
C11_SweepAndEventConverge ==
    (/\ procs.sweep.pc = "done"
     /\ procs.handler.pc = "idle"
     /\ procs.sweep.did
     /\ procs.handler.did)
    => Cardinality(RecordsOf(FileA)) = 1

\* C12: when a Modified or Moved event is handled for the first data file
\* while the file has at least 10 bytes and the structural document of its
\* dataset holds no record of it (its Created event was dropped), the
\* structural document holds a record of the file afterwards.
C12_DeferredFilePickedUp ==
    [][(/\ lastOp'.op \in {"on_modified", "on_moved"}
        /\ lastOp'.path = FileA
        /\ files[FileA] # NoFile
        /\ files[FileA].size >= MIN_FILE_SIZE
        /\ DocExists(docs, DatasetStructuralPath(DatasetPath))
        /\ RecordsOf(FileA) = {})
       => \E i \in 1..Len(RecordsAfter) : RecordsAfter[i].file_name = basename(FileA)]_vars

\* C13: when a Created or Moved event of the first data file is handled
\* while the file has fewer than 10 bytes and its dataset has a structural
\* document, process_new_file returns False (so no version-control call
\* follows) and no metadata document changes.
C13_SmallFileDeferred ==
    [][(/\ lastOp'.op \in {"on_created", "on_moved"}
        /\ lastOp'.path = FileA
        /\ files[FileA] # NoFile
        /\ files[FileA].size < MIN_FILE_SIZE
        /\ DocExists(docs, DatasetStructuralPath(DatasetPath)))
       => (~lastOp'.ok /\ docs' = docs)]_vars

\* C13 witness: a Created event of the first data file was handled while the
\* file had 5 bytes and the dataset a structural document; the call returned
\* False and the document has no record of the file
C13_Witness ==
    /\ lastOp.op = "on_created"
    /\ lastOp.path = FileA
    /\ files[FileA] # NoFile
    /\ files[FileA].size < MIN_FILE_SIZE
    /\ DocExists(docs, DatasetStructuralPath(DatasetPath))
    /\ ~lastOp.ok
    /\ RecordsOf(FileA) = {}


\* C14: when a schema name has an explicit override, a local override and a
\* packaged default at once, the resolution info for the name gives the
\* explicit override's path and reports the source explicit_override.
C14_ExplicitOverrideReported ==
    ( /\ lastOp.op = "get_schema_resolution_info"
      /\ lastOp.schema_name = config.name
      /\ config.explicit = "file" /\ config.local /\ config.packaged )
    => (lastOp.resolved = "explicit_override" /\ lastOp.source = "explicit_override")

\* the tiers in the order of precedence
TierOrder == <<"explicit_override", "local_override", "custom_override", "packaged_default">>

\* whether a tier offers a file for a name: the explicit tier by having an
\* entry, the directories by holding the file
TierOffers(tier, schema_name) ==
    CASE tier = "explicit_override" -> ExplicitOverride(schema_name) # "none"
      [] tier = "local_override" -> LocalOverrideExists(schema_name)
      [] tier = "custom_override" -> CustomOverrideExists(schema_name)
      [] OTHER -> PackagedExists(schema_name)

C16_SourceNamesResolvedTier ==
    (lastOp.op \in {"get_schema_resolution_info", "get_metadata"} /\ lastOp.ok)
    => lastOp.source = lastOp.resolved


\* the documents a generator, the file-record update or update_metadata
\* writes under SpecValidate, and the schema each is validated against
ValidatedDocs ==
    { ProjectDescriptivePath(ProjectPath), ProjectDescriptivePath(DatasetPath),
      ProjectAdministrativePath(ProjectPath), DatasetAdministrativePath(DatasetPath),
      DatasetStructuralPath(DatasetPath) }

DocSchema(d) ==
    CASE d = ProjectAdministrativePath(ProjectPath) -> get_project_admin_schema
      [] d = DatasetAdministrativePath(DatasetPath) -> get_dataset_admin_schema
      [] d = DatasetStructuralPath(DatasetPath) -> get_dataset_struct_schema
      [] OTHER -> get_project_schema

C18_LenientWriteProceeds ==
    [][~config.strict =>
         /\ lastOp'.op = "generate_project_file"
                => DocExists(docs', ProjectDescriptivePath(ProjectPath))
         /\ ( /\ lastOp'.op = "process_new_file"
              /\ files[FileA].size >= MIN_FILE_SIZE
              /\ DocExists(docs, DatasetStructuralPath(DatasetPath)) )
                => \E i \in 1..Len(RecordsAfter) :
                       RecordsAfter[i].file_name = basename(FileA)]_vars

\* C19: when the document a generator built fails validation, the generator
\* returns None for that document and leaves the document as it was:
\* generate_project_file for the descriptive document, generate_dataset_files
\* for the administrative and the structural document each.
C19_FailedValidationReturnsNone ==
    [][/\ ( /\ lastOp'.op = "generate_project_file"
            /\ ~validate_json(ProjectData(ProjectPath, UuidStr(nextUuid)),
                              get_project_schema) )
          => ( /\ ~lastOp'.ok
               /\ docs'[ProjectDescriptivePath(ProjectPath)]
                      = docs[ProjectDescriptivePath(ProjectPath)] )
       /\ ( /\ lastOp'.op = "generate_dataset_files"
            /\ ~validate_json(DatasetAdminData(docs, dirs, ParentProjectId,
                                               UuidStr(nextUuid)),
                              get_dataset_admin_schema) )
          => ( /\ ~lastOp'.admin_file
               /\ docs'[DatasetAdministrativePath(DatasetPath)]
                      = docs[DatasetAdministrativePath(DatasetPath)] )
       /\ ( /\ lastOp'.op = "generate_dataset_files"
            /\ ~validate_json(DatasetStructData(DatasetPath, ParentProjectId,
                                                UuidStr(nextUuid)),
                              get_dataset_struct_schema) )
          => ( /\ ~lastOp'.struct_file
               /\ docs'[DatasetStructuralPath(DatasetPath)]
                      = docs[DatasetStructuralPath(DatasetPath)] )]_vars

\* in lenient mode the administrative document failed validation and was
\* not returned, while the structural document of the same call was
C19_Witness ==
    /\ ~config.strict
    /\ config.name = "dataset_administrative_schema.json"
    /\ lastOp.op = "generate_dataset_files"
    /\ ~lastOp.admin_file
    /\ lastOp.struct_file
    /\ ~DocExists(docs, DatasetAdministrativePath(DatasetPath))
    /\ DocExists(docs, DatasetStructuralPath(DatasetPath))


\* project_identifier of p_X's descriptive document
ProjectIdOf(fs) == Get(Load(fs, ProjectDescriptivePath(ProjectPath)), "project_identifier")

\* document d of the dataset exists beside the project's descriptive document
\* and its associated_project_identifier is the project's project_identifier
LinkedIn(fs, d) ==
    /\ DocExists(fs, ProjectDescriptivePath(ProjectPath))
    /\ DocExists(fs, d)
    /\ Truthy(ProjectIdOf(fs))
    /\ Get(Load(fs, d), "associated_project_identifier") = ProjectIdOf(fs)

\* the two documents of the dataset that are to carry the link
LinkDocs == {DatasetAdministrativePath(DatasetPath), DatasetStructuralPath(DatasetPath)}

\* C20: when the Created event of d_Y is handled while p_X has its
\* descriptive document, each of d_Y's administrative and structural
\* documents carries the project's identifier as associated_project_identifier
\* afterwards, and a document that carries it still does after every later step.
C20_DatasetLinkedToProject ==
    [][/\ ( /\ lastOp'.op = "on_created"
            /\ lastOp'.path = DatasetPath
            /\ DocExists(docs, ProjectDescriptivePath(ProjectPath))
            /\ Truthy(ProjectIdOf(docs)) )
          => \A d \in LinkDocs : LinkedIn(docs', d)
       /\ \A d \in LinkDocs : LinkedIn(docs, d) => LinkedIn(docs', d)]_vars


\* the dataset's structural document exists and names the parent directory
\* as the project, the fallback for a project identifier that cannot be read
FallbackLinked(fs) ==
    /\ DocExists(fs, DatasetStructuralPath(DatasetPath))
    /\ Get(Load(fs, DatasetStructuralPath(DatasetPath)), "associated_project_identifier")
           = JStr(basename(ProjectPath))

\* C21: when no project identifier can be read from p_X's descriptive
\* document and d_Y has no structural document, handling a Created or
\* Moved event of d_Y generates the dataset documents under the name of the
\* parent directory, and handling such an event of a data file of d_Y does
\* the same and then records the file.
C21_FallbackProjectIdentifier ==
    [][( /\ lastOp'.op \in {"on_created", "on_moved"}
         /\ ~Truthy(ReadProjectId(docs, ProjectPath))
         /\ ~DocExists(docs, DatasetStructuralPath(DatasetPath)) )
       => /\ lastOp'.path = DatasetPath => FallbackLinked(docs')
          /\ ( /\ lastOp'.path = FileA
               /\ files[FileA].size >= MIN_FILE_SIZE )
             => ( /\ FallbackLinked(docs')
                  /\ \E i \in 1..Len(RecordsAfter) :
                         RecordsAfter[i].file_name = basename(FileA) )]_vars


\* the required fields the gate holds the contextual document to
GatedRequired ==
    GateSchema(Get(Contextual, "experiment_template_type")).required \ ignore_fields

\* a value a human has filled in: present, not empty and not the placeholder
HumanFilled(value) == Truthy(value) /\ value # JStr(SENTINEL)

\* C22: when dataset_identifier_link is a required field of the schema and
\* is empty in the contextual document, the gate fills it from
\* dataset_identifier of the structural document and reports complete if the
\* other gated required fields are filled, and it returns (False, None) when
\* the structural document offers no identifier.
C22_GateSelfHealsTheLink ==
    [][( /\ lastOp'.op = "finalize_dataset"
         /\ DocExists(docs, ExperimentContextualPath(DatasetPath))
         /\ "dataset_identifier_link" \in GatedRequired
         /\ ~Truthy(Get(Contextual, "dataset_identifier_link")) )
       => IF Truthy(ReadDatasetId(docs, DatasetPath))
          THEN (\A f \in GatedRequired \ {"dataset_identifier_link"} :
                    HumanFilled(Get(Contextual, f)))
               => ( /\ lastOp'.is_complete
                    /\ Get(Load(docs', ExperimentContextualPath(DatasetPath)),
                           "dataset_identifier_link") = ReadDatasetId(docs, DatasetPath) )
          ELSE ~lastOp'.is_complete /\ lastOp'.experiment_id = JNull]_vars

\* a value that is present and not empty, whatever its type
PresentNonEmpty(value) ==
    /\ value.t # "null"
    /\ value # JStr("")
    /\ value # JArr(<<>>)
    /\ value # JObj(EmptyObj)

\* C23: the gate reports complete only if every gated required field of the
\* contextual document is present and non-empty, be it a string, an array
\* or an object.
C23_GateRequiresNonEmpty ==
    [][(lastOp'.op = "finalize_dataset" /\ lastOp'.is_complete)
       => \A f \in GatedRequired : PresentNonEmpty(Get(Contextual, f))]_vars

\* the values the materializer leaves in a field for a human to replace
IsPlaceholder(value) == value \in {JStr(SENTINEL), JNum(0), JInt(0)}

\* C24: a contextual document that create_experiment_contextual_template has
\* just written and nobody has edited is not reported complete while one of
\* its gated required fields holds a placeholder of the materializer.
C24_PlaceholderBlocksGate ==
    [][( /\ lastOp.op = "create_contextual_template"
         /\ lastOp'.op = "finalize_dataset"
         /\ \E f \in GatedRequired : IsPlaceholder(Get(Contextual, f)) )
       => ~lastOp'.is_complete]_vars

Segments(path) ==
    { SubSeq(path, i + 1, j - 1) :
        <<i, j>> \in { ij \in (1..Len(path)) \X (2..(Len(path) + 1)) :
                          /\ ij[1] < ij[2]
                          /\ path[ij[1]] = "/"
                          /\ ij[2] = Len(path) + 1 \/ path[ij[2]] = "/"
                          /\ \A k \in (ij[1] + 1)..(ij[2] - 1) : path[k] # "/" } }

\* a path segment that is a denylisted name
Denylisted(seg) ==
    \/ seg \in IgnoredNames
    \/ seg = TEMPLATE_SCHEMAS_DIR
    \/ \E suf \in EditorTempNames : EndsWith(seg, suf)

\* C26: a created directory whose name carries the project prefix and none of
\* whose path segments is a denylisted name is classified as a project root:
\* its Created event leaves its project_descriptive.json on disk.
C26_DenylistMatchesSegments ==
    [][(/\ lastOp'.op = "on_created"
        /\ lastOp'.path \in dirs
        /\ StartsWith(basename(lastOp'.path), PROJECT_PREFIX)
        /\ \A seg \in Segments(lastOp'.path) : ~Denylisted(seg))
       => /\ docs' # docs
          /\ DocExists(docs', ProjectDescriptivePath(lastOp'.path))]_vars

\* the directories from the one holding path up to the filesystem root
RECURSIVE Ancestors(_)
Ancestors(current) ==
    IF dirname(current) = current \/ current = <<>> THEN {current}
    ELSE {current} \cup Ancestors(dirname(current))

\* directory a is the monitored root or lies under it
UnderMonitoredRoot(a) ==
    a = MONITOR_PATH \/ StartsWith(a, MONITOR_PATH \o <<"/">>)

\* C27: when a data file under the monitored root is created, the upward walk
\* ends, and the dataset root it gives, if any, is the nearest directory above
\* the file whose .metadata holds dataset_structural.json and is not above
\* the monitored root.
C27_WalkStopsAtMonitoredRoot ==
    [][(lastOp'.op = "on_created" /\ lastOp'.path \in Files)
       => \E root \in {_find_dataset_root(docs, dirs, lastOp'.path)} :
            root # NoRoot =>
              /\ root \in Ancestors(dirname(lastOp'.path))
              /\ DocExists(docs, DatasetStructuralPath(root))
              /\ \A a \in Ancestors(dirname(lastOp'.path)) :
                     DocExists(docs, DatasetStructuralPath(a)) => Len(a) <= Len(root)
              /\ UnderMonitoredRoot(root)]_vars

\* C28: the status a dataset listing reports is V2_Finalized if
\* complete_metadata.json exists when the call is made, otherwise V1_Ingested
\* if dataset_structural.json exists, otherwise V0_Initial, whatever else the
\* state holds.
C28_StatusFromPresenceAlone ==
    [][lastOp'.op = "get_project_datasets"
       => lastOp'.status =
            IF DocExists(docs, CompleteMetadataPath(DatasetPath)) THEN "V2_Finalized"
            ELSE IF DocExists(docs, DatasetStructuralPath(DatasetPath))
            THEN "V1_Ingested"
            ELSE "V0_Initial"]_vars

\* the complete document of the dataset
Complete == Load(docs, CompleteMetadataPath(DatasetPath))

\* metadata_components of the complete document a step writes
WrittenComponents == Get(Load(docs', CompleteMetadataPath(DatasetPath)),
                         "metadata_components").v

C30_FourDocumentsSuffice ==
    [][(/\ lastOp'.op = "generate_complete_metadata_file"
        /\ \A i \in {1, 3, 4, 5} : DocExists(docs, RequiredFiles(DatasetPath)[i])
        /\ validate_json([version |-> JStr("2.0"),
                          experiment_identifier |-> lastOp'.experiment_id,
                          metadata_components |-> JObj(EmptyObj)],
                         get_complete_metadata_schema))
       => /\ lastOp'.ok
          /\ DocExists(docs', CompleteMetadataPath(DatasetPath))
          /\ \E written \in {Load(docs', CompleteMetadataPath(DatasetPath))} :
                /\ Get(written, "version") = JStr("2.0")
                /\ Get(written, "experiment_identifier") = lastOp'.experiment_id
                /\ "metadata_components" \in DOMAIN written]_vars

\* the leaf fields of a JSON value and those of them that are filled
RECURSIVE LeafFields(_), LeafKeys(_, _), LeafItems(_)
LeafFields(x) ==
    IF x.t = "object" THEN LeafKeys(x.v, DOMAIN x.v)
    ELSE IF x.t = "array" THEN LeafItems(x.v)
    ELSE Tally(1, IF IsFilled(x) THEN 1 ELSE 0)

LeafKeys(d, keys) ==
    IF keys = {} THEN Tally(0, 0)
    ELSE Bind(CHOOSE k \in keys : TRUE, LAMBDA key :
         Plus(LeafFields(d[key]), LeafKeys(d, keys \ {key})))

LeafItems(items) ==
    IF items = <<>> THEN Tally(0, 0)
    ELSE Plus(IF DOMAIN Head(items) # {"t", "v"}
              THEN Tally(Cardinality(DOMAIN Head(items)),
                         Cardinality(DOMAIN Head(items)))
              ELSE LeafFields(Head(items)),
              LeafItems(Tail(items)))

\* the aggregate a written complete document was scored on: the document with
\* the two scores still 0.0
ScoredOn(written) ==
    Update(written,
        [metadata_validation |-> JObj(
            [schema_compliance |-> JBool(TRUE),
             completeness_score |-> JNum(0),
             quality_score |-> JNum(0)])])

\* C31: the completeness score of a complete_metadata.json that is written
\* equals the filled leaf fields of the aggregate over its leaf fields, and
\* is 1.0 when every leaf field of the five documents is filled.
C31_CompletenessIsLeafFraction ==
    [][docs'[CompleteMetadataPath(DatasetPath)] # docs[CompleteMetadataPath(DatasetPath)]
       => \E written \in {Load(docs', CompleteMetadataPath(DatasetPath))} :
          \E score \in {written["metadata_validation"].v["completeness_score"].v} :
          \E leaves \in {LeafFields(JObj(ScoredOn(written)))} :
          \E parts \in {LeafFields(written["metadata_components"])} :
             /\ score[1] * leaves.total = score[2] * leaves.filled
             /\ parts.filled = parts.total => score[1] = score[2]]_vars

\* the identifier and the link of the template a step has written: the
\* identifier is the caller's, or the generated one when the caller gave none
TemplateIdentified(field) ==
    \E written \in {Load(docs', ExperimentContextualPath(DatasetPath))} :
        /\ DocExists(docs', ExperimentContextualPath(DatasetPath))
        /\ Get(written, field) =
               (IF lastOp'.experiment_id = JNull THEN JStr(UuidStr(nextUuid))
                ELSE lastOp'.experiment_id)
        /\ Truthy(Get(written, field))
        /\ DocExists(docs, DatasetStructuralPath(DatasetPath))
           => Get(written, "dataset_identifier_link") =
                  Get(Load(docs, DatasetStructuralPath(DatasetPath)),
                      "dataset_identifier")

\* C32 as stated: create_experiment_contextual_template writes a template
\* whose experiment_identifier_run_id is the id supplied, or a generated
\* non-empty one, and whose dataset_identifier_link is the structural
\* document's dataset_identifier when that document exists; it succeeds
\* without a structural document too.
C32_TemplateCarriesRunId ==
    [][lastOp'.op = "create_experiment_contextual_template"
       => TemplateIdentified("experiment_identifier_run_id")]_vars

\* C32 amended: the same, the identifier being written under
\* experiment_identifier_run_id when the template's schema has that property
\* and under experiment_identifier_object_id when it has that one instead.
C32_TemplateCarriesItsIdentifier ==
    [][lastOp'.op = "create_experiment_contextual_template"
       => TemplateIdentified(
              IF "experiment_identifier_run_id"
                     \in DOMAIN TemplateSchema(lastOp'.kind).properties
              THEN "experiment_identifier_run_id"
              ELSE "experiment_identifier_object_id")]_vars

\* a template made without an experiment id for a dataset that has its
\* structural document
C32_Witness ==
    /\ lastOp.op = "create_experiment_contextual_template"
    /\ lastOp.experiment_id = JNull
    /\ DocExists(docs, DatasetStructuralPath(DatasetPath))
    /\ Truthy(Get(Contextual, "experiment_identifier_run_id"))
    /\ Get(Contextual, "dataset_identifier_link") =
           Get(Load(docs, DatasetStructuralPath(DatasetPath)), "dataset_identifier")

\* a directory the classifier is to look at: none of its segments is a
\* denylisted name
Clean(path) == \A seg \in Segments(path) : ~Denylisted(seg)

\* C33: when the sweep of start_monitoring has finished, every directory with
\* the project prefix has project_descriptive.json and every directory
\* directly inside a project whose name does not start with "." has
\* dataset_structural.json.
C33_SweepRepairsEveryDirectory ==
    [][lastOp'.op = "sweep"
       => /\ \A project \in dirs :
                 (StartsWith(basename(project), PROJECT_PREFIX) /\ Clean(project))
                 => DocExists(docs', ProjectDescriptivePath(project))
          /\ \A dataset \in dirs :
                 (/\ dirname(dataset) \in dirs
                  /\ StartsWith(basename(dirname(dataset)), PROJECT_PREFIX)
                  /\ ~StartsWith(basename(dataset), <<".">>)
                  /\ Clean(dataset))
                 => DocExists(docs', DatasetStructuralPath(dataset))]_vars

\* the schema a document of the tree is validated against
SchemaNameOf(document) ==
    CASE basename(document) = ProjectDescriptiveName -> "project_descriptive.json"
      [] basename(document) = ProjectAdministrativeName -> "project_administrative_schema.json"
      [] basename(document) = DatasetAdministrativeName -> "dataset_administrative_schema.json"
      [] basename(document) = DatasetStructuralName -> "dataset_structural_schema.json"
      [] basename(document) = ExperimentContextualName -> "experiment_contextual_schema.json"
      [] OTHER -> "complete_metadata_schema.json"

\* C34: in strict and in lenient mode alike, an operation writes a metadata
\* document only when some tier resolves the document's schema, so that the
\* document was validated against it.
C34_NoWriteWithoutSchema ==
    [][\A document \in DocPaths :
           docs'[document] # docs[document]
           => resolve_schema_path(SchemaNameOf(document)).exists]_vars

\* the file names of the records a structural document holds
RecordNames(document) ==
    IF document.exists
    THEN {FileDescriptions(document.content)[i].file_name :
              i \in 1..Len(FileDescriptions(document.content))}
    ELSE {}

Threads == {"sweep", "handler"}

\* C35: no lock spans the load and the write of the structural document: a
\* thread that has loaded the document writes back the records of its own
\* copy and the record of its own file, whatever another thread has written
\* to the document in between.
C35_WriteBackOfTheLoadedCopy ==
    [][\A t \in Threads :
           (procs[t].pc = "dump" /\ procs'[t].pc # "dump" /\ lastOp'.ok)
           => RecordNames(docs'[DatasetStructuralPath(DatasetPath)])
              = RecordNames(procs[t].struct) \cup {basename(procs[t].file)}]_vars

\* both threads have ingested a file of the dataset, each with success, the
\* second write has just happened, and the document holds one record
C35_Witness ==
    /\ lastOp.op = "dump" /\ lastOp.ok /\ lastOp.path = FileB
    /\ \E t \in Threads : t # lastOp.kind /\ procs[t].did
    /\ files[FileA] # NoFile
    /\ RecordNames(docs[DatasetStructuralPath(DatasetPath)]) = {basename(FileB)}

\* C36: the body get_schema serves for a schema name is the content of the
\* file resolve_schema_path selects for that name.
C36_ServedSchemaIsTheResolvedOne ==
    [][(lastOp'.op = "get_schema" /\ lastOp'.ok)
       => /\ resolve_schema_path(lastOp'.schema_name).exists
          /\ SchemaAt(lastOp'.source, lastOp'.schema_name)
             = SchemaAt(resolve_schema_path(lastOp'.schema_name).tier,
                        lastOp'.schema_name)]_vars

\* C37: a get_metadata call leaves experiment_identifier_run_id of a stored
\* experiment_contextual.json as it was, whatever value it was created with.
C37_ReadKeepsRunId ==
    [][(/\ lastOp'.op = "get_metadata"
        /\ DocExists(docs, ExperimentContextualPath(DatasetPath))
        /\ "experiment_identifier_run_id"
               \in DOMAIN Load(docs, ExperimentContextualPath(DatasetPath)))
       => Get(Load(docs', ExperimentContextualPath(DatasetPath)),
              "experiment_identifier_run_id")
          = Get(Load(docs, ExperimentContextualPath(DatasetPath)),
                "experiment_identifier_run_id")]_vars

\* the relative paths of the records a structural document holds
RecordPaths(document) ==
    IF document.exists
    THEN {FileDescriptions(document.content)[i].file_path :
              i \in 1..Len(FileDescriptions(document.content))}
    ELSE {}

\* C38: a successful ingestion of a file leaves a record for that file's
\* relative path and keeps the record of every other relative path, so two
\* files of a dataset with different relative paths each have their record
\* once both are ingested.
C38_OneRecordPerRelativePath ==
    [][(lastOp'.op = "process_new_file" /\ lastOp'.ok)
       => RecordPaths(docs'[DatasetStructuralPath(DatasetPath)])
          = RecordPaths(docs[DatasetStructuralPath(DatasetPath)])
            \cup {relpath(lastOp'.path, DatasetPath)}]_vars

\* the sum of file_size_bytes over the records from the i-th on
RECURSIVE SizesFrom(_, _)
SizesFrom(descs, i) ==
    IF i > Len(descs) THEN 0 ELSE descs[i].file_size_bytes + SizesFrom(descs, i + 1)

\* the structural document of the dataset
Structural == docs[DatasetStructuralPath(DatasetPath)]

\* C39: once files are ingested, file_organization.file_count is the number of
\* entries of file_descriptions and file_organization.total_size_bytes is the
\* sum of their file_size_bytes.
C39_SummaryMatchesRecords ==
    (Structural.exists /\ Records # <<>>)
    => /\ FileOrganization(Structural.content)["file_count"] = JInt(Len(Records))
       /\ FileOrganization(Structural.content)["total_size_bytes"]
          = JInt(SizesFrom(Records, 1))

\* three files are ingested, one of them again after its size has changed
C39_Witness ==
    /\ lastOp.op = "process_new_file" /\ lastOp.ok /\ lastOp.branch = "updated"
    /\ Structural.exists
    /\ Len(Records) = 2
    /\ Records[1].file_size_bytes # Records[2].file_size_bytes

\* C40: a task in a terminal status keeps that status for as long as the
\* manager holds it, and so does a task cancel_task has cancelled, whether it
\* was pending or running.
C40_TerminalStatusIsFinal ==
    [][\A task_id \in TaskIds :
           manager.tasks[task_id] \in TerminalStatuses
           => manager'.tasks[task_id] \in {manager.tasks[task_id], ""}]_vars

====
